---- MODULE Spec2Model ----
(***************************************************************************)
(* The ESP-NOW LED indicator (receiver) of src/src/indicator.cpp as a      *)
(* state machine: the cooperative loop() with its Setup, LED-test, Ack,    *)
(* Discovery and Sleep/Wake state machines, and the receive callback       *)
(* onDataReceived, which the radio stack runs asynchronously to loop().    *)
(*                                                                         *)
(* One loop() iteration is a sequence of steps (pc); the callback is one   *)
(* atomic step that falls between two iterations or between two steps of   *)
(* one (RecvPoints).  The millisecond clock is an unsigned counter that     *)
(* wraps at ULONG_MOD; it advances between two iterations, once an         *)
(* iteration has found nothing to do.                                      *)
(***************************************************************************)
EXTENDS Integers, FiniteSets, Sequences, TLC

\* ---- program constants (indicator.cpp) ----
NUM_LEDS == 3
AWAKE_TIME_MS == 300
SLEEP_DURATION_MS == 1700
AWAKE_AFTER_COMMAND_MS == 3000
MAX_SLEEP_CYCLES == 10
LED_COMMAND == 1
ACKNOWLEDGMENT == 2
DISCOVERY == 3
MESSAGE_SIZE == 2
\* the sender (sender.cpp)
RETRY_INTERVAL_MS == 500
NEXT_LED_DELAY_MS == 10000
MAX_RETRIES_BEFORE_WAIT == 12

\* ---- bounds of the model ----
\* width of the millisecond clock (unsigned long is 32 bits on the target;
\* the model keeps the wrap but in a narrower word, wide enough for every
\* delay of the program to be less than half of the clock period)
ClockBits == 15
\* the clock is not advanced past this many ms after boot
MaxTime == 7800
\* frames the peer(s) transmit in one run of the model
MaxFrames == 2

\* the long run (SpecLong): its clock limit, and the instant after which its
\* peer is silent
MaxTimeLong == 32000
SleepCycleSpan == 2400
LastFrameBy == 9000
\* the run through the wrap of the clock (SpecWrap): it begins WrapLead ms (or
\* up to 3 clock steps more) before the wrap and ends WrapTail ms after it
WrapLead == 2600
WrapNear == 50
WrapTail == 1200

\* the run of the sender (SpecSender): the step and the limit of its clock, in
\* ms, and the frames it receives
SenderStep == 100
SenderMaxTime == 12000
SenderMaxFrames == 2
\* the calls of esp_now_add_peer() that the sender's radio rejects
SenderMaxRejects == 3

\* ms by which the clock advances between two loop() iterations while some
\* state machine is waiting
WaitStep == 100

\* the runs with uneven tick spacing.  SpecFine: while an Ack or Discovery
\* run is in flight the clock may also advance by FineStep ms; its peer sends
\* until FineFrameBy ms after boot and its clock stops at MaxTimeFine
FineStep == 5
LongStep == 150
MaxTimeBoot == 6500
FineFrameBy == 3000
MaxTimeFine == 6000

ULONG_MOD == 2 ^ ClockBits

Leds == 0 .. (NUM_LEDS - 1)
Addrs == {"A", "B"}
ZeroMac == "00"
GarbageMac == "??"
NullPtr == "NULL"
NoPeer == "none"
FrameValues == {0, 1, NUM_LEDS}
FrameTypes == {LED_COMMAND, ACKNOWLEDGMENT, DISCOVERY}
FrameLens == {1, MESSAGE_SIZE}
\* the frames a peer may send, with the radio stack's answer to the add-peer
\* call of the callback.  Fields the callback never looks at are fixed: the
\* value of a frame that is no command, everything in a frame of wrong length
Frames ==
  {f \in [src : Addrs, len : FrameLens, type : FrameTypes, value : FrameValues,
          accept : BOOLEAN] :
     /\ (f.len # MESSAGE_SIZE => f.src = "A" /\ f.type = LED_COMMAND)
     /\ (f.len # MESSAGE_SIZE \/ f.type # LED_COMMAND => f.value = 0)
     /\ (f.len # MESSAGE_SIZE \/ f.type # LED_COMMAND \/ f.value >= NUM_LEDS => f.accept)}

VARIABLES
  \* environment: clock, GPIO, radio stack, persistent store
  now, gpioOut, gpioHold, ledPad, radioUp, recvCb, peers, storedPeer, framesLeft,
  \* globals of indicator.cpp
  lastCommandTime, lastStatusTime, nextSleepTime, consecutiveSleepCycles,
  forceExtendedAwake, activeLedIndex, lastSenderMac, sendDiscoveryResponse,
  setupState, ledTestState, ackState, discoveryState, sleepState,
  stateTimer, currentTestLed, ackAttemptCount, ackTargetAddr,
  \* function-static timers
  ledTimer, ackTimer,
  \* loop(): position and locals
  pc, loopQuiet, currentTime, ackCase, msgValue, ledIdx,
  \* history of what was received and sent (observation only):
  \*   hCmdFrom, hCmdVal   sender and value of the last valid COMMAND
  \*   hAckCount           ACK send operations since then (counted up to 4)
  \*   hAckWrongTo/Val     one of them went to another address / carried another value
  \*   hAckPeerOk          the peer registration of that run succeeded
  \*   hCmdMidRun          that COMMAND arrived while an Ack run was in flight
  \*   hAckLast            time of the last ACK send since that COMMAND, -1 if none
  \*   hDiscPending        a DISCOVERY was received and no reply sent since
  \*   hDiscTicked         a loop() iteration has passed its discovery step since
  \*   hDiscPeerFail       an add-peer call of the discovery run was rejected
  \*   hDiscSent           replies sent since the last DISCOVERY (counted up to 2)
  \*   hDiscAborted        a discovery run has ended on a rejected add-peer
  \*   hSentCommand        a frame of type LED_COMMAND has been transmitted
  \*   hWrapped            the clock has wrapped since boot
  \*   hPendTime           time of a COMMAND/DISCOVERY accepted while a sleep was
  \*                       pending, -1 if none since the last suspend
  \*   hCycles             sleep cycles completed in a row with no COMMAND or
  \*                       DISCOVERY since the first of them began (after the
  \*                       10th: from 1); -1 when such a frame has arrived
  \*                       during the cycle in progress
  hCmdFrom, hCmdVal, hAckCount, hAckWrongTo, hAckWrongVal, hAckPeerOk,
  hCmdMidRun, hAckLast, hDiscPending, hDiscTicked, hDiscPeerFail, hDiscSent, hDiscAborted,
  hSentCommand, hWrapped, hPendTime, hCycles

\* ---- the sender, another device with its own clock (sender.cpp) ----
VARIABLES
  sNow, sRecvCb, sPeers, sFramesLeft, sRejectsLeft,
  \* globals of sender.cpp (setupState and setupTimer are sSetupState and
  \* sSetupTimer here, peerTimer is the static of setupPeer())
  sSetupState, sSetupTimer, peerState, peerAttemptCount, peerTimer,
  currentLedIndex, acknowledged, lastSendTime, lastSuccessTime, retryCount,
  \* loop(): position, and the value of 'acknowledged' it has read
  sPc, sQuiet, sAckRead,
  \* history (observation only): COMMAND frames transmitted for the current
  \* index, and the time of the last of them (-1: none)
  hTxCount, hTxLast

\* ---- the wire: one message_t on its way from one device to the other ----
VARIABLES
  \* the type and value a device assigns to the fields of its message_t, the
  \* bytes handed to esp_now_send() and not yet delivered, and the message_t
  \* the receiving callback has read from them
  wMsg, wData, wRead

wireVars == <<wMsg, wData, wRead>>

senderProg == <<sRecvCb, sPeers, sSetupState, sSetupTimer, peerState, peerAttemptCount,
                peerTimer, currentLedIndex, acknowledged, lastSendTime, lastSuccessTime,
                retryCount>>
senderVars == <<sNow, sFramesLeft, sRejectsLeft, senderProg, sPc, sQuiet, sAckRead, hTxCount, hTxLast>>

envVars == <<now, hWrapped, gpioOut, gpioHold, ledPad, radioUp, recvCb, peers, storedPeer, framesLeft>>
ledVars == <<gpioOut, gpioHold, ledPad>>
radioVars == <<radioUp, recvCb, peers>>
dutyVars == <<lastCommandTime, nextSleepTime, consecutiveSleepCycles, forceExtendedAwake>>
setupVars == <<setupState, ledTestState, currentTestLed, ledTimer>>
ackVars == <<ackState, ackAttemptCount, ackTargetAddr, ackTimer>>
discVars == <<discoveryState, sendDiscoveryResponse>>
localVars == <<currentTime, ackCase, msgValue, ledIdx>>
schedVars == <<pc, loopQuiet>>
hAckVars == <<hCmdFrom, hCmdVal, hAckCount, hAckWrongTo, hAckWrongVal, hAckPeerOk, hCmdMidRun,
              hAckLast>>
hDiscVars == <<hDiscPending, hDiscTicked, hDiscPeerFail, hDiscSent, hDiscAborted>>
hVars == <<hAckVars, hDiscVars, hSentCommand, hPendTime, hCycles>>
progVars == <<dutyVars, lastStatusTime, activeLedIndex, lastSenderMac, setupVars,
              ackVars, discVars, sleepState, stateTimer>>
\* what a loop() iteration can change outside its own locals
tracked == <<gpioOut, gpioHold, ledPad, radioUp, recvCb, peers, progVars>>
indicatorVars == <<envVars, progVars, schedVars, localVars, hVars>>
vars == <<indicatorVars, senderVars, wireVars>>
\* what a step of the indicator, and what a step of the sender, leaves alone
besideIndicator == <<senderVars, wireVars>>
besideSender == <<indicatorVars, wireVars>>

\* ---- unsigned arithmetic of the millisecond clock ----
Add(a, b) == (a + b) % ULONG_MOD
Sub(a, b) == (a - b) % ULONG_MOD
\* int -> uint8_t (message.value = activeLedIndex)
ToU8(x) == x % 256

\* ---- GPIO: active-low LED pins with the pad hold latch ----
\* digitalWrite: the output register always takes the level; the pad follows
\* it unless the pin's hold is engaged
WriteOut(out, i, lvl) == [out EXCEPT ![i] = lvl]
WritePad(pad, hold, i, lvl) == IF i \in hold THEN pad ELSE [pad EXCEPT ![i] = lvl]
LedLit(i) == ledPad[i] = "LOW"
AllLevel(lvl) == [i \in Leds |-> lvl]

\* ---- state after power-on and setup() (indicator.cpp:100-117, 133-145) ----
\* the sender after setup() (sender.cpp:86-98)
indicatorMac == "I"
SenderInit ==
  /\ sNow = 0 /\ sRecvCb = FALSE /\ sPeers = {} /\ sFramesLeft = SenderMaxFrames
  /\ sRejectsLeft = SenderMaxRejects
  /\ sSetupState = "SETUP_SERIAL_WAIT" /\ sSetupTimer = 0
  /\ peerState = "PEER_INIT" /\ peerAttemptCount = 0 /\ peerTimer = 0
  /\ currentLedIndex = 0 /\ acknowledged = FALSE
  /\ lastSendTime = 0 /\ lastSuccessTime = 0 /\ retryCount = 0
  /\ sPc = "idle" /\ sQuiet = FALSE /\ sAckRead = FALSE
  /\ hTxCount = 0 /\ hTxLast = -1

\* nothing is on the wire
NoMessage == [type |-> 0, value |-> 0]
WireIdle == wMsg = NoMessage /\ wData = <<>> /\ wRead = NoMessage

IndicatorInit ==
  /\ now = 0
  /\ gpioOut = AllLevel("HIGH") /\ gpioHold = {} /\ ledPad = AllLevel("HIGH")
  /\ radioUp = FALSE /\ recvCb = FALSE /\ peers = {}
  /\ storedPeer = NoPeer
  /\ framesLeft = MaxFrames
  /\ lastCommandTime = 0 /\ lastStatusTime = 0 /\ nextSleepTime = 0
  /\ consecutiveSleepCycles = 0 /\ forceExtendedAwake = FALSE
  /\ activeLedIndex = -1 /\ lastSenderMac = ZeroMac
  /\ sendDiscoveryResponse = FALSE
  /\ setupState = "SETUP_SERIAL_WAIT" /\ ledTestState = "LED_TEST_INIT"
  /\ ackState = "ACK_INIT" /\ discoveryState = "DISCOVERY_INIT"
  /\ sleepState = "SLEEP_AWAKE"
  /\ stateTimer = 0 /\ currentTestLed = 0 /\ ackAttemptCount = 0
  /\ ackTargetAddr = NullPtr
  /\ ledTimer = 0 /\ ackTimer = 0
  /\ pc = "idle" /\ loopQuiet = FALSE /\ currentTime = 0 /\ ackCase = "none" /\ msgValue = 0 /\ ledIdx = -1
  /\ hCmdFrom = NoPeer /\ hCmdVal = -1 /\ hAckCount = 0
  /\ hAckWrongTo = FALSE /\ hAckWrongVal = FALSE /\ hAckPeerOk = FALSE
  /\ hDiscPending = FALSE /\ hDiscTicked = FALSE /\ hDiscPeerFail = FALSE /\ hDiscSent = 0
  /\ hDiscAborted = FALSE /\ hSentCommand = FALSE /\ hWrapped = FALSE
  /\ hPendTime = -1 /\ hCycles = 0 /\ hCmdMidRun = FALSE
  /\ hAckLast = -1

Init == IndicatorInit /\ SenderInit /\ WireIdle

\* ESP.restart(): the chip reboots into the state after setup(); only the
\* persistent store survives
Restart ==
  /\ UNCHANGED besideIndicator
  /\ now' = 0
  /\ gpioOut' = AllLevel("HIGH") /\ gpioHold' = {} /\ ledPad' = AllLevel("HIGH")
  /\ radioUp' = FALSE /\ recvCb' = FALSE /\ peers' = {}
  /\ UNCHANGED <<storedPeer, framesLeft>>
  /\ lastCommandTime' = 0 /\ lastStatusTime' = 0 /\ nextSleepTime' = 0
  /\ consecutiveSleepCycles' = 0 /\ forceExtendedAwake' = FALSE
  /\ activeLedIndex' = -1 /\ lastSenderMac' = ZeroMac
  /\ sendDiscoveryResponse' = FALSE
  /\ setupState' = "SETUP_SERIAL_WAIT" /\ ledTestState' = "LED_TEST_INIT"
  /\ ackState' = "ACK_INIT" /\ discoveryState' = "DISCOVERY_INIT"
  /\ sleepState' = "SLEEP_AWAKE"
  /\ stateTimer' = 0 /\ currentTestLed' = 0 /\ ackAttemptCount' = 0
  /\ ackTargetAddr' = NullPtr
  /\ ledTimer' = 0 /\ ackTimer' = 0
  /\ pc' = "idle" /\ loopQuiet' = FALSE /\ currentTime' = 0 /\ ackCase' = "none" /\ msgValue' = 0 /\ ledIdx' = -1
  /\ hCmdFrom' = NoPeer /\ hCmdVal' = -1 /\ hAckCount' = 0
  /\ hAckWrongTo' = FALSE /\ hAckWrongVal' = FALSE /\ hAckPeerOk' = FALSE
  /\ hDiscPending' = FALSE /\ hDiscTicked' = FALSE /\ hDiscPeerFail' = FALSE /\ hDiscSent' = 0
  /\ hDiscAborted' = FALSE /\ hSentCommand' = FALSE /\ hWrapped' = FALSE
  /\ hPendTime' = -1 /\ hCycles' = 0 /\ hCmdMidRun' = FALSE
  /\ hAckLast' = -1

\* ---- the clock ----
\* a run of some state machine is waiting for a short timer or has a step to
\* do in the next loop() iteration
Busy ==
  \/ setupState # "SETUP_COMPLETE"
  \/ ackState \notin {"ACK_INIT", "ACK_COMPLETE"}
  \/ discoveryState \in {"DISCOVERY_PEER_SETUP", "DISCOVERY_SEND"}
  \/ (sendDiscoveryResponse /\ discoveryState = "DISCOVERY_INIT")
  \/ sleepState # "SLEEP_AWAKE"

\* the instants at which a test of the duty-cycle policy or the status print
\* changes its answer
Deadlines ==
  {Add(lastCommandTime, AWAKE_AFTER_COMMAND_MS), nextSleepTime, Add(lastStatusTime, 10000)}
  \cup (IF forceExtendedAwake
        THEN {Add(lastStatusTime, 5000), Add(lastCommandTime, 10000)}
        ELSE {})

\* while nothing is waiting, loop() iterations change nothing until the next
\* deadline: the model goes there in one step
IdleGap ==
  LET gaps == {g \in {Sub(c, now) : c \in Deadlines} : g >= 1 /\ g <= ULONG_MOD \div 2}
  IN  IF gaps = {} THEN WaitStep
      ELSE CHOOSE g \in gaps : \A h \in gaps : g <= h

\* ms since boot
Uptime == now + (IF hWrapped THEN ULONG_MOD ELSE 0)

\* millis() advances between two loop() iterations.  The Arduino core calls
\* loop() back to back and an iteration takes far less than one clock step of
\* the model: the clock advances once an iteration has found nothing to do
AdvanceClock(limit) ==
  /\ pc = "idle" /\ loopQuiet
  /\ LET d == IF Busy THEN WaitStep ELSE IdleGap
     IN  /\ Uptime + d <= limit
         /\ now' = Add(now, d)
         /\ hWrapped' = (hWrapped \/ now + d >= ULONG_MOD)
  /\ loopQuiet' = FALSE
  /\ UNCHANGED <<ledVars, radioVars, storedPeer, framesLeft, progVars, pc, localVars, hVars,
                 besideIndicator>>

\* loopQuiet: no step of the current (or last) loop() iteration changed anything
StepNoted == loopQuiet' = (loopQuiet /\ tracked' = tracked) /\ UNCHANGED besideIndicator
IterationNoted == loopQuiet' = (tracked' = tracked) /\ UNCHANGED besideIndicator

\* ---- loop(), setup phase: one iteration per step (indicator.cpp:150-237) ----
\* currentTime - stateTimer >= dwell (indicator.cpp:154, 193, 202)
SetupWaitOverEarly(t, timer, dwell) == Sub(t, timer) >= dwell - 50
SetupWaitOver(t, timer, dwell) == Sub(t, timer) >= dwell

SetupSerialWait ==
  /\ pc = "idle" /\ setupState = "SETUP_SERIAL_WAIT"
  /\ IF SetupWaitOver(now, stateTimer, 500)
     THEN /\ gpioOut' = AllLevel("HIGH") /\ ledPad' = AllLevel("HIGH")
          /\ ledTestState' = "LED_TEST_INIT"
          /\ setupState' = "SETUP_LED_TEST"
     ELSE UNCHANGED <<gpioOut, ledPad, ledTestState, setupState>>
  /\ UNCHANGED <<now, hWrapped, gpioHold, radioVars, storedPeer, framesLeft, dutyVars, lastStatusTime,
                 activeLedIndex, lastSenderMac, currentTestLed, ledTimer, ackVars, discVars,
                 sleepState, stateTimer, pc, localVars, hVars>>
  /\ IterationNoted

\* loadSavedAddresses(): the stored 6 bytes, if any, become lastSenderMac
loadSavedAddresses(mac) == IF storedPeer # NoPeer THEN storedPeer ELSE mac

\* processLedTest() followed by the LED_TEST_COMPLETE check of loop()
SetupLedTest ==
  /\ pc = "idle" /\ setupState = "SETUP_LED_TEST"
  /\ CASE ledTestState = "LED_TEST_INIT" ->
            /\ currentTestLed' = 0 /\ ledTimer' = now
            /\ ledTestState' = "LED_TEST_SEQUENCE"
            /\ UNCHANGED <<gpioOut, ledPad>>
       [] ledTestState = "LED_TEST_SEQUENCE" ->
            IF Sub(now, ledTimer) < 300
            THEN /\ gpioOut' = WriteOut(gpioOut, currentTestLed, "LOW")
                 /\ ledPad' = WritePad(ledPad, gpioHold, currentTestLed, "LOW")
                 /\ UNCHANGED <<currentTestLed, ledTimer, ledTestState>>
            ELSE IF Sub(now, ledTimer) < 400
            THEN /\ gpioOut' = WriteOut(gpioOut, currentTestLed, "HIGH")
                 /\ ledPad' = WritePad(ledPad, gpioHold, currentTestLed, "HIGH")
                 /\ UNCHANGED <<currentTestLed, ledTimer, ledTestState>>
            ELSE /\ currentTestLed' = currentTestLed + 1
                 /\ IF currentTestLed + 1 >= NUM_LEDS
                    THEN ledTestState' = "LED_TEST_ALL_ON" /\ UNCHANGED ledTimer
                    ELSE ledTimer' = now /\ UNCHANGED ledTestState
                 /\ UNCHANGED <<gpioOut, ledPad>>
       [] ledTestState = "LED_TEST_ALL_ON" ->
            /\ gpioOut' = AllLevel("LOW") /\ ledPad' = AllLevel("LOW")
            /\ ledTimer' = now
            /\ ledTestState' = "LED_TEST_ALL_OFF"
            /\ UNCHANGED currentTestLed
       [] ledTestState = "LED_TEST_ALL_OFF" ->
            IF Sub(now, ledTimer) >= 300
            THEN /\ gpioOut' = AllLevel("HIGH") /\ ledPad' = AllLevel("HIGH")
                 /\ ledTestState' = "LED_TEST_COMPLETE"
                 /\ UNCHANGED <<currentTestLed, ledTimer>>
            ELSE UNCHANGED <<gpioOut, ledPad, currentTestLed, ledTimer, ledTestState>>
       [] OTHER -> UNCHANGED <<gpioOut, ledPad, currentTestLed, ledTimer, ledTestState>>
  /\ IF ledTestState' = "LED_TEST_COMPLETE"
     THEN /\ lastSenderMac' = loadSavedAddresses(lastSenderMac)
          /\ setupState' = "SETUP_WIFI_INIT"
     ELSE UNCHANGED <<lastSenderMac, setupState>>
  /\ UNCHANGED <<now, hWrapped, gpioHold, radioVars, storedPeer, framesLeft, dutyVars, lastStatusTime,
                 activeLedIndex, ackVars, discVars, sleepState, stateTimer, pc, localVars, hVars>>
  /\ IterationNoted

SetupWifiInit ==
  /\ pc = "idle" /\ setupState = "SETUP_WIFI_INIT"
  /\ stateTimer' = now
  /\ setupState' = "SETUP_WIFI_DISCONNECT_WAIT"
  /\ UNCHANGED <<envVars, dutyVars, lastStatusTime, activeLedIndex, lastSenderMac,
                 ledTestState, currentTestLed, ledTimer, ackVars, discVars, sleepState,
                 pc, localVars, hVars>>
  /\ IterationNoted

SetupWifiDisconnectWait ==
  /\ pc = "idle" /\ setupState = "SETUP_WIFI_DISCONNECT_WAIT"
  /\ IF SetupWaitOver(now, stateTimer, 300)
     THEN /\ stateTimer' = now
          /\ setupState' = "SETUP_WIFI_CHANNEL_WAIT"
     ELSE UNCHANGED <<stateTimer, setupState>>
  /\ UNCHANGED <<envVars, dutyVars, lastStatusTime, activeLedIndex, lastSenderMac,
                 ledTestState, currentTestLed, ledTimer, ackVars, discVars, sleepState,
                 pc, localVars, hVars>>
  /\ IterationNoted

SetupWifiChannelWait ==
  /\ pc = "idle" /\ setupState = "SETUP_WIFI_CHANNEL_WAIT"
  /\ IF SetupWaitOver(now, stateTimer, 100)
     THEN setupState' = "SETUP_ESPNOW_INIT"
     ELSE UNCHANGED setupState
  /\ UNCHANGED <<envVars, dutyVars, lastStatusTime, activeLedIndex, lastSenderMac,
                 ledTestState, currentTestLed, ledTimer, ackVars, discVars, sleepState,
                 stateTimer, pc, localVars, hVars>>
  /\ IterationNoted

\* esp_now_init() accepted: register the callback and open the first awake window
SetupEspNowInitOk ==
  /\ pc = "idle" /\ setupState = "SETUP_ESPNOW_INIT"
  /\ radioUp' = TRUE /\ recvCb' = TRUE
  /\ lastStatusTime' = now
  /\ lastCommandTime' = now
  /\ nextSleepTime' = Add(now, AWAKE_AFTER_COMMAND_MS)
  /\ setupState' = "SETUP_COMPLETE"
  /\ UNCHANGED <<now, hWrapped, ledVars, peers, storedPeer, framesLeft, consecutiveSleepCycles,
                 forceExtendedAwake, activeLedIndex, lastSenderMac, ledTestState,
                 currentTestLed, ledTimer, ackVars, discVars, sleepState, stateTimer,
                 pc, localVars, hVars>>
  /\ IterationNoted

\* esp_now_init() rejected: ESP.restart()
SetupEspNowInitFail ==
  /\ pc = "idle" /\ setupState = "SETUP_ESPNOW_INIT"
  /\ Restart

\* ---- loop() after setup (indicator.cpp:239-309), one step per pc ----
\* unsigned long currentTime = millis(); setup is complete
LoopBegin ==
  /\ pc = "idle" /\ setupState = "SETUP_COMPLETE"
  /\ currentTime' = now
  /\ pc' = "ack"
  /\ loopQuiet' = TRUE
  /\ UNCHANGED <<envVars, progVars, ackCase, msgValue, ledIdx, hVars, besideIndicator>>

AckInFlight == ackState \notin {"ACK_INIT", "ACK_COMPLETE"}
DiscoveryInFlight == discoveryState \in {"DISCOVERY_PEER_SETUP", "DISCOVERY_SEND"}

\* the memory behind ackTargetAddr.  The pointer is the macAddr argument of
\* the receive callback, valid during the callback only: read later, the
\* bytes are whatever the radio stack left there
Deref(ptr, inCallback) ==
  IF ptr = NullPtr THEN {NullPtr}
  ELSE IF inCallback THEN {ptr}
  ELSE Addrs \cup {GarbageMac}

\* esp_now_add_peer(): rejected when the stack is not initialised or the
\* address is already in the table, else as the stack decides (accept)
AddPeerResult(up, table, mac, accept) == up /\ mac \notin table /\ accept

\* the frames the node builds: the ACK of processAcknowledgment() and the
\* reply of processDiscoveryResponse()
AckMessageAsCommand(idx) == [type |-> LED_COMMAND, value |-> idx]
AckMessage(idx) == [type |-> ACKNOWLEDGMENT, value |-> idx]
DiscoveryMessage == [type |-> DISCOVERY, value |-> 0]

\* ACK_WAIT (indicator.cpp:662): the wait after a send is over at time t
AckWaitOverAtTen(t, timer) == Sub(t, timer) >= 10
AckWaitOver(t, timer) == Sub(t, timer) >= 20

\* loop():240 and the switch of processAcknowledgment(): the case is chosen,
\* and for ACK_SEND the message is built from activeLedIndex
AckDispatch ==
  /\ pc = "ack"
  /\ IF AckInFlight
     THEN /\ ackCase' = ackState
          /\ msgValue' = IF ackState = "ACK_SEND" THEN ToU8(activeLedIndex) ELSE 0
          /\ pc' = "ackBody"
     ELSE /\ pc' = "disc"
          /\ UNCHANGED <<ackCase, msgValue>>
  /\ UNCHANGED <<envVars, progVars, currentTime, ledIdx, hVars>>
  /\ StepNoted

\* processAcknowledgment(), body of the chosen case (indicator.cpp:604-671)
AckBody ==
  /\ pc = "ackBody"
  /\ CASE ackCase = "ACK_PEER_SETUP" ->
            /\ \E m \in Deref(ackTargetAddr, FALSE), a1 \in BOOLEAN, a2 \in BOOLEAN :
                 LET table1 == peers \ {m}
                     r1 == AddPeerResult(radioUp, table1, m, a1)
                     r2 == r1 \/ AddPeerResult(radioUp, table1, m, a2)
                 IN  IF ackTargetAddr = NullPtr
                     THEN /\ ackState' = "ACK_COMPLETE"
                          /\ UNCHANGED <<peers, ackTimer, hAckPeerOk>>
                     ELSE IF ~r1 /\ Sub(now, ackTimer) < 10
                     THEN /\ peers' = table1
                          /\ UNCHANGED <<ackState, ackTimer, hAckPeerOk>>
                     ELSE IF ~r2
                     THEN /\ peers' = table1
                          /\ ackState' = "ACK_COMPLETE"
                          /\ hAckPeerOk' = FALSE
                          /\ UNCHANGED ackTimer
                     ELSE /\ peers' = table1 \cup {m}
                          /\ ackState' = "ACK_SEND"
                          /\ ackTimer' = now
                          /\ hAckPeerOk' = TRUE
            /\ UNCHANGED <<ackAttemptCount, hAckCount, hAckWrongTo, hAckWrongVal, hSentCommand,
                           hAckLast>>
       [] ackCase = "ACK_SEND" ->
            /\ \E m \in Deref(ackTargetAddr, FALSE) :
                 /\ hAckWrongTo' = (hAckWrongTo \/ m # hCmdFrom)
                 /\ hAckWrongVal' = (hAckWrongVal \/ AckMessage(msgValue).value # hCmdVal)
                 /\ hSentCommand' = (hSentCommand \/ AckMessage(msgValue).type = LED_COMMAND)
                 /\ hAckCount' = IF hAckCount < 4 THEN hAckCount + 1 ELSE hAckCount
            /\ hAckLast' = now
            /\ ackAttemptCount' = ackAttemptCount + 1
            /\ ackTimer' = now
            /\ ackState' = "ACK_WAIT"
            /\ UNCHANGED <<peers, hAckPeerOk>>
       [] OTHER ->
            /\ IF AckWaitOver(now, ackTimer)
               THEN ackState' = IF ackAttemptCount < 3 THEN "ACK_SEND" ELSE "ACK_COMPLETE"
               ELSE UNCHANGED ackState
            /\ UNCHANGED <<peers, ackAttemptCount, ackTimer, hAckCount, hAckWrongTo,
                           hAckWrongVal, hAckPeerOk, hSentCommand, hAckLast>>
  /\ pc' = "disc"
  /\ ackCase' = "none" /\ msgValue' = 0
  /\ UNCHANGED <<now, hWrapped, ledVars, radioUp, recvCb, storedPeer, framesLeft, dutyVars,
                 lastStatusTime, activeLedIndex, lastSenderMac, setupVars, ackTargetAddr,
                 discVars, sleepState, stateTimer, currentTime, ledIdx,
                 hCmdFrom, hCmdVal, hCmdMidRun, hDiscVars, hPendTime, hCycles>>
  /\ StepNoted

\* loop():244-263 up to the read of activeLedIndex: start a discovery run if
\* one is asked for, processDiscoveryResponse(), the periodic status print
DiscStep ==
  /\ pc = "disc"
  /\ LET start == sendDiscoveryResponse /\ discoveryState = "DISCOVERY_INIT"
         ds == IF start THEN "DISCOVERY_PEER_SETUP" ELSE discoveryState
         st == IF start THEN currentTime ELSE stateTimer
     IN  /\ stateTimer' = st
         /\ CASE ds = "DISCOVERY_PEER_SETUP" ->
                   /\ \E a1 \in BOOLEAN, a2 \in BOOLEAN :
                        LET m == lastSenderMac
                            table1 == peers \ {m}
                            r1 == AddPeerResult(radioUp, table1, m, a1)
                            r2 == r1 \/ AddPeerResult(radioUp, table1, m, a2)
                        IN  IF ~r1 /\ Sub(now, st) < 10
                            THEN /\ peers' = table1
                                 /\ discoveryState' = ds
                                 /\ hDiscPeerFail' = TRUE
                                 /\ UNCHANGED hDiscAborted
                            ELSE IF ~r2
                            THEN /\ peers' = table1
                                 /\ discoveryState' = "DISCOVERY_COMPLETE"
                                 /\ hDiscPeerFail' = TRUE
                                 /\ hDiscAborted' = TRUE
                            ELSE /\ peers' = table1 \cup {m}
                                 /\ discoveryState' = "DISCOVERY_SEND"
                                 /\ UNCHANGED <<hDiscPeerFail, hDiscAborted>>
                   /\ hDiscTicked' = (hDiscTicked \/ hDiscPending)
                   /\ UNCHANGED <<sendDiscoveryResponse, hDiscPending, hDiscSent, hSentCommand>>
              [] ds = "DISCOVERY_SEND" ->
                   /\ sendDiscoveryResponse' = FALSE
                   /\ discoveryState' = "DISCOVERY_COMPLETE"
                   /\ hDiscPending' = FALSE
                   /\ hDiscTicked' = FALSE
                   /\ hDiscSent' = IF hDiscSent < 2 THEN hDiscSent + 1 ELSE hDiscSent
                   /\ hSentCommand' = (hSentCommand \/ DiscoveryMessage.type = LED_COMMAND)
                   /\ UNCHANGED <<peers, hDiscPeerFail, hDiscAborted>>
              [] OTHER ->
                   /\ hDiscTicked' = (hDiscTicked \/ hDiscPending)
                   /\ UNCHANGED <<peers, discoveryState, sendDiscoveryResponse,
                                  hDiscPending, hDiscPeerFail, hDiscSent, hDiscAborted,
                                  hSentCommand>>
  /\ lastStatusTime' = IF Sub(currentTime, lastStatusTime) >= 10000
                       THEN currentTime ELSE lastStatusTime
  /\ ledIdx' = activeLedIndex
  /\ pc' = "led"
  /\ UNCHANGED <<now, hWrapped, ledVars, radioUp, recvCb, storedPeer, framesLeft, dutyVars,
                 activeLedIndex, lastSenderMac, setupVars, ackVars, sleepState,
                 currentTime, ackCase, msgValue, hAckVars, hPendTime, hCycles>>
  /\ StepNoted

\* loop():261-263, the write: digitalWrite(LED_PINS[activeLedIndex], LOW)
LedWrite ==
  /\ pc = "led"
  /\ IF ledIdx >= 0
     THEN /\ gpioOut' = WriteOut(gpioOut, ledIdx, "LOW")
          /\ ledPad' = WritePad(ledPad, gpioHold, ledIdx, "LOW")
     ELSE UNCHANGED <<gpioOut, ledPad>>
  /\ ledIdx' = -1
  /\ pc' = "policy"
  /\ UNCHANGED <<now, hWrapped, gpioHold, radioVars, storedPeer, framesLeft, progVars,
                 currentTime, ackCase, msgValue, hVars>>
  /\ StepNoted

\* loop():269-277, first test of the duty-cycle policy: the awake window
PolicyAwakeWindow ==
  /\ pc = "policy"
  /\ IF Sub(currentTime, lastCommandTime) < AWAKE_AFTER_COMMAND_MS
     THEN /\ nextSleepTime' = Add(lastCommandTime, AWAKE_AFTER_COMMAND_MS)
          /\ consecutiveSleepCycles' = 0
          /\ sleepState' = "SLEEP_AWAKE"
          /\ pc' = "sleep"
     ELSE /\ pc' = "policy2"
          /\ UNCHANGED <<nextSleepTime, consecutiveSleepCycles, sleepState>>
  /\ UNCHANGED <<envVars, lastCommandTime, forceExtendedAwake, lastStatusTime,
                 activeLedIndex, lastSenderMac, setupVars, ackVars, discVars, stateTimer,
                 localVars, hVars>>
  /\ StepNoted

\* loop():278-304, the rest of the policy: extended awake period, or the
\* decision to prepare a sleep cycle
\* loop():284, the end of the extended awake period
ExtendedAwakeOverFlipped(t, stamp) == Sub(t, stamp) < 10000
ExtendedAwakeOver(t, stamp) == Sub(t, stamp) >= 10000

PolicyExtendedOrSleep ==
  /\ pc = "policy2"
  /\ IF forceExtendedAwake
     THEN /\ IF Sub(currentTime, lastStatusTime) >= 5000
             THEN /\ lastStatusTime' = currentTime
                  /\ IF ExtendedAwakeOver(currentTime, lastCommandTime)
                     THEN /\ forceExtendedAwake' = FALSE
                          /\ consecutiveSleepCycles' = 0
                          /\ nextSleepTime' = Add(currentTime, 100)
                     ELSE UNCHANGED <<forceExtendedAwake, consecutiveSleepCycles, nextSleepTime>>
             ELSE UNCHANGED <<lastStatusTime, forceExtendedAwake, consecutiveSleepCycles,
                              nextSleepTime>>
          /\ sleepState' = "SLEEP_AWAKE"
          /\ UNCHANGED stateTimer
     ELSE /\ IF currentTime >= nextSleepTime /\ sleepState = "SLEEP_AWAKE"
             THEN /\ sleepState' = "SLEEP_PREPARE"
                  /\ stateTimer' = currentTime
             ELSE UNCHANGED <<sleepState, stateTimer>>
          /\ UNCHANGED <<lastStatusTime, forceExtendedAwake, consecutiveSleepCycles,
                         nextSleepTime>>
  /\ hCycles' = IF sleepState = "SLEEP_AWAKE" /\ sleepState' = "SLEEP_PREPARE" /\ hCycles < 0
                THEN 0 ELSE hCycles
  /\ pc' = "sleep"
  /\ UNCHANGED <<envVars, lastCommandTime, activeLedIndex, lastSenderMac, setupVars,
                 ackVars, discVars, localVars, hAckVars, hDiscVars, hSentCommand,
                 hPendTime>>
  /\ StepNoted

\* ---- processSleepWakeup() (indicator.cpp:373-494), called at loop():307 ----
\* the loop() iteration returns
EndLoop ==
  /\ pc' = "idle"
  /\ currentTime' = 0
  /\ UNCHANGED <<ackCase, msgValue, ledIdx>>

SleepAwake ==
  /\ pc = "sleep" /\ sleepState = "SLEEP_AWAKE"
  /\ EndLoop
  /\ UNCHANGED <<envVars, progVars, hVars>>
  /\ StepNoted

\* SLEEP_PREPARE: after the scan window, hold the active LED's pin
SleepPrepare ==
  /\ pc = "sleep" /\ sleepState = "SLEEP_PREPARE"
  /\ IF Sub(now, stateTimer) >= AWAKE_TIME_MS
     THEN /\ gpioHold' = IF activeLedIndex >= 0 THEN gpioHold \cup {activeLedIndex}
                         ELSE gpioHold
          /\ sleepState' = "SLEEP_ENTER"
     ELSE UNCHANGED <<gpioHold, sleepState>>
  /\ EndLoop
  /\ UNCHANGED <<now, hWrapped, gpioOut, ledPad, radioVars, storedPeer, framesLeft, dutyVars,
                 lastStatusTime, activeLedIndex, lastSenderMac, setupVars, ackVars,
                 discVars, stateTimer, hVars>>
  /\ StepNoted

\* SLEEP_ENTER: esp_light_sleep_start() suspends the whole program
SleepEnter ==
  /\ pc = "sleep" /\ sleepState = "SLEEP_ENTER"
  /\ pc' = "suspended"
  /\ UNCHANGED <<envVars, progVars, localVars, hVars>>
  /\ StepNoted

\* the wake-up timer fires SLEEP_DURATION_MS later; rest of the SLEEP_ENTER
\* case: release every hold (the pads follow the output registers again),
\* re-assert the active LED
WakeFromSleep ==
  /\ pc = "suspended"
  /\ now' = Add(now, SLEEP_DURATION_MS)
  /\ hWrapped' = (hWrapped \/ now + SLEEP_DURATION_MS >= ULONG_MOD)
  /\ gpioHold' = {}
  /\ gpioOut' = IF activeLedIndex >= 0 THEN WriteOut(gpioOut, activeLedIndex, "LOW")
                ELSE gpioOut
  /\ ledPad' = gpioOut'
  /\ sleepState' = "SLEEP_REINIT_START"
  /\ stateTimer' = now'
  /\ hPendTime' = -1
  /\ EndLoop
  /\ UNCHANGED <<radioVars, storedPeer, framesLeft, dutyVars, lastStatusTime,
                 activeLedIndex, lastSenderMac, setupVars, ackVars, discVars,
                 hAckVars, hDiscVars, hSentCommand, hCycles>>
  /\ StepNoted

\* SLEEP_REINIT_START: esp_now_deinit() drops the callback and the peer table
SleepReinitStart ==
  /\ pc = "sleep" /\ sleepState = "SLEEP_REINIT_START"
  /\ radioUp' = FALSE /\ recvCb' = FALSE /\ peers' = {}
  /\ sleepState' = "SLEEP_WIFI_DISCONNECT"
  /\ stateTimer' = now
  /\ EndLoop
  /\ UNCHANGED <<now, hWrapped, ledVars, storedPeer, framesLeft, dutyVars, lastStatusTime,
                 activeLedIndex, lastSenderMac, setupVars, ackVars, discVars, hVars>>
  /\ StepNoted

SleepWifiDisconnect ==
  /\ pc = "sleep" /\ sleepState = "SLEEP_WIFI_DISCONNECT"
  /\ IF Sub(now, stateTimer) >= 20
     THEN sleepState' = "SLEEP_WIFI_SETUP" /\ stateTimer' = now
     ELSE UNCHANGED <<sleepState, stateTimer>>
  /\ EndLoop
  /\ UNCHANGED <<envVars, dutyVars, lastStatusTime, activeLedIndex, lastSenderMac,
                 setupVars, ackVars, discVars, hVars>>
  /\ StepNoted

SleepWifiSetup ==
  /\ pc = "sleep" /\ sleepState = "SLEEP_WIFI_SETUP"
  /\ IF Sub(now, stateTimer) >= 20
     THEN sleepState' = "SLEEP_CHANNEL_SETUP" /\ stateTimer' = now
     ELSE UNCHANGED <<sleepState, stateTimer>>
  /\ EndLoop
  /\ UNCHANGED <<envVars, dutyVars, lastStatusTime, activeLedIndex, lastSenderMac,
                 setupVars, ackVars, discVars, hVars>>
  /\ StepNoted

\* SLEEP_CHANNEL_SETUP: esp_now_init(); on rejection skip to SLEEP_COMPLETE
SleepChannelSetup ==
  /\ pc = "sleep" /\ sleepState = "SLEEP_CHANNEL_SETUP"
  /\ \E ok \in BOOLEAN :
       IF Sub(now, stateTimer) >= 20
       THEN /\ radioUp' = ok
            /\ sleepState' = IF ok THEN "SLEEP_ESPNOW_CALLBACK" ELSE "SLEEP_COMPLETE"
            /\ stateTimer' = now
       ELSE UNCHANGED <<radioUp, sleepState, stateTimer>>
  /\ EndLoop
  /\ UNCHANGED <<now, hWrapped, ledVars, recvCb, peers, storedPeer, framesLeft, dutyVars,
                 lastStatusTime, activeLedIndex, lastSenderMac, setupVars, ackVars,
                 discVars, hVars>>
  /\ StepNoted

SleepEspNowCallback ==
  /\ pc = "sleep" /\ sleepState = "SLEEP_ESPNOW_CALLBACK"
  /\ recvCb' = TRUE
  /\ sleepState' = "SLEEP_PEER_SETUP"
  /\ stateTimer' = now
  /\ EndLoop
  /\ UNCHANGED <<now, hWrapped, ledVars, radioUp, peers, storedPeer, framesLeft, dutyVars,
                 lastStatusTime, activeLedIndex, lastSenderMac, setupVars, ackVars,
                 discVars, hVars>>
  /\ StepNoted

\* SLEEP_PEER_SETUP: re-add the remembered peer, result not looked at
SleepPeerSetup ==
  /\ pc = "sleep" /\ sleepState = "SLEEP_PEER_SETUP"
  /\ \E a \in BOOLEAN :
       peers' = IF lastSenderMac # ZeroMac /\ AddPeerResult(radioUp, peers, lastSenderMac, a)
                THEN peers \cup {lastSenderMac} ELSE peers
  /\ sleepState' = "SLEEP_COMPLETE"
  /\ EndLoop
  /\ UNCHANGED <<now, hWrapped, ledVars, radioUp, recvCb, storedPeer, framesLeft, dutyVars,
                 lastStatusTime, activeLedIndex, lastSenderMac, setupVars, ackVars,
                 discVars, stateTimer, hVars>>
  /\ StepNoted

\* SLEEP_COMPLETE with the cap compared by > : the cap is reached a cycle late
SleepCompleteLateCap ==
  /\ pc = "sleep" /\ sleepState = "SLEEP_COMPLETE"
  /\ IF consecutiveSleepCycles + 1 > MAX_SLEEP_CYCLES
     THEN /\ forceExtendedAwake' = TRUE
          /\ consecutiveSleepCycles' = 0
          /\ UNCHANGED nextSleepTime
     ELSE /\ consecutiveSleepCycles' = consecutiveSleepCycles + 1
          /\ nextSleepTime' = Add(now, AWAKE_TIME_MS)
          /\ UNCHANGED forceExtendedAwake
  /\ sleepState' = "SLEEP_AWAKE"
  /\ hCycles' = IF hCycles < 0 THEN 0 ELSE IF hCycles >= MAX_SLEEP_CYCLES THEN 1 ELSE hCycles + 1
  /\ EndLoop
  /\ UNCHANGED <<envVars, lastCommandTime, lastStatusTime, activeLedIndex, lastSenderMac,
                 setupVars, ackVars, discVars, stateTimer, hAckVars, hDiscVars,
                 hSentCommand, hPendTime>>
  /\ StepNoted

\* SLEEP_COMPLETE: count the cycle; at the cap force an extended awake
\* period, else schedule the next sleep
SleepComplete ==
  /\ pc = "sleep" /\ sleepState = "SLEEP_COMPLETE"
  /\ IF consecutiveSleepCycles + 1 >= MAX_SLEEP_CYCLES
     THEN /\ forceExtendedAwake' = TRUE
          /\ consecutiveSleepCycles' = 0
          /\ UNCHANGED nextSleepTime
     ELSE /\ consecutiveSleepCycles' = consecutiveSleepCycles + 1
          /\ nextSleepTime' = Add(now, AWAKE_TIME_MS)
          /\ UNCHANGED forceExtendedAwake
  /\ sleepState' = "SLEEP_AWAKE"
  /\ hCycles' = IF hCycles < 0 THEN 0 ELSE IF hCycles >= MAX_SLEEP_CYCLES THEN 1 ELSE hCycles + 1
  /\ EndLoop
  /\ UNCHANGED <<envVars, lastCommandTime, lastStatusTime, activeLedIndex, lastSenderMac,
                 setupVars, ackVars, discVars, stateTimer, hAckVars, hDiscVars,
                 hSentCommand, hPendTime>>
  /\ StepNoted

\* ---- the receive callback (indicator.cpp:523-591) ----
\* where the callback may fall: between two loop() iterations, or inside one
\* after the Ack case was chosen, after activeLedIndex was read, after the
\* first policy test, or before processSleepWakeup()
RecvPoints == {"idle", "ackBody", "led", "policy2", "sleep"}

\* a sleep cycle is pending: decided or latched, the suspend not yet executed
SleepPending == sleepState \in {"SLEEP_PREPARE", "SLEEP_ENTER"} /\ pc # "suspended"

\* processAcknowledgment() as called by handleLedCommand(): from ACK_INIT it
\* falls through to ACK_PEER_SETUP, makes one add-peer attempt (ackTimer was
\* stamped in this call, so a rejection is not retried) and leaves the switch at
\* the break: the state it ends in and the number of frames it has sent
AckFromInitNoBreak(r1) ==
  [state |-> IF r1 THEN "ACK_WAIT" ELSE "ACK_PEER_SETUP", sends |-> IF r1 THEN 1 ELSE 0]
AckFromInit(r1) ==
  [state |-> IF r1 THEN "ACK_SEND" ELSE "ACK_PEER_SETUP", sends |-> 0]

\* savePeerAddress(): one key of the persistent store, overwritten by each call
savePeerAddressKeepFirst(store, addr) == IF store = NoPeer THEN addr ELSE store
savePeerAddress(store, addr) == addr

\* onDataReceived(macAddr = src, data = {type, value}, dataLen = len), with
\* handleLedCommand() and the processAcknowledgment() call it makes.  accept
\* is the radio stack's answer to esp_now_add_peer().
OnDataReceived(src, len, type, value, accept) ==
  /\ radioUp /\ recvCb /\ pc \in RecvPoints
  /\ framesLeft > 0
  /\ framesLeft' = framesLeft - 1
  /\ IF len # MESSAGE_SIZE
     THEN UNCHANGED <<ledVars, peers, storedPeer, progVars, hVars>>
     ELSE
       /\ lastSenderMac' = src
       /\ CASE type = LED_COMMAND ->
                 /\ lastCommandTime' = now
                 /\ consecutiveSleepCycles' = 0
                 /\ forceExtendedAwake' = FALSE
                 /\ hCycles' = IF sleepState = "SLEEP_AWAKE" THEN 0 ELSE -1
                 /\ IF value >= NUM_LEDS
                    THEN UNCHANGED <<ledVars, peers, activeLedIndex, ackVars, hAckVars, hPendTime>>
                    ELSE /\ LET out1 == IF activeLedIndex >= 0
                                        THEN WriteOut(gpioOut, activeLedIndex, "HIGH")
                                        ELSE gpioOut
                                pad1 == IF activeLedIndex >= 0
                                        THEN WritePad(ledPad, gpioHold, activeLedIndex, "HIGH")
                                        ELSE ledPad
                            IN  /\ gpioOut' = WriteOut(out1, value, "LOW")
                                /\ ledPad' = WritePad(pad1, gpioHold, value, "LOW")
                         /\ activeLedIndex' = value
                         /\ ackTargetAddr' = src
                         /\ ackAttemptCount' = 0
                         /\ ackTimer' = now
                         /\ LET table1 == peers \ Deref(src, TRUE)
                                r1 == AddPeerResult(radioUp, table1, src, accept)
                            IN  /\ peers' = IF r1 THEN table1 \cup {src} ELSE table1
                                /\ ackState' = AckFromInit(r1).state
                                /\ hAckCount' = AckFromInit(r1).sends
                                /\ hAckPeerOk' = r1
                         /\ hCmdFrom' = src /\ hCmdVal' = value
                         /\ hAckWrongTo' = FALSE /\ hAckWrongVal' = FALSE
                         /\ hCmdMidRun' = AckInFlight
                         /\ hAckLast' = -1
                         /\ hPendTime' = IF SleepPending THEN now ELSE hPendTime
                         /\ UNCHANGED gpioHold
                 /\ UNCHANGED <<storedPeer, discVars, hDiscVars, hSentCommand>>
            [] type = DISCOVERY ->
                 /\ storedPeer' = savePeerAddress(storedPeer, src)
                 /\ sendDiscoveryResponse' = TRUE
                 /\ lastCommandTime' = now
                 /\ consecutiveSleepCycles' = 0
                 /\ forceExtendedAwake' = FALSE
                 /\ hCycles' = IF sleepState = "SLEEP_AWAKE" THEN 0 ELSE -1
                 /\ hDiscPending' = TRUE /\ hDiscTicked' = FALSE /\ hDiscPeerFail' = FALSE
                 /\ hDiscSent' = 0
                 /\ UNCHANGED hDiscAborted
                 /\ hPendTime' = IF SleepPending THEN now ELSE hPendTime
                 /\ UNCHANGED <<ledVars, peers, activeLedIndex, ackVars, discoveryState, hAckVars,
                             hSentCommand>>
            [] OTHER ->
                 UNCHANGED <<ledVars, peers, storedPeer, dutyVars, activeLedIndex, ackVars,
                             discVars, hVars>>
       /\ UNCHANGED <<nextSleepTime, lastStatusTime, setupVars, sleepState, stateTimer>>
  /\ loopQuiet' = FALSE
  /\ UNCHANGED <<now, hWrapped, radioUp, recvCb, pc, localVars, besideIndicator>>

\* a frame arrives from a peer
Receive ==
  \E f \in Frames : OnDataReceived(f.src, f.len, f.type, f.value, f.accept)

\* one loop() iteration while setup is in progress
SetupTick ==
  \/ SetupSerialWait
  \/ SetupLedTest
  \/ SetupWifiInit
  \/ SetupWifiDisconnectWait
  \/ SetupWifiChannelWait
  \/ SetupEspNowInitOk
  \/ SetupEspNowInitFail

\* one step of a loop() iteration after setup: up to the duty-cycle policy
\* and the return of an awake node (loop():239-307), or a step of
\* processSleepWakeup() (loop():308)
AwakeTick ==
  \/ LoopBegin
  \/ AckDispatch
  \/ AckBody
  \/ DiscStep
  \/ LedWrite
  \/ PolicyAwakeWindow
  \/ PolicyExtendedOrSleep
  \/ SleepAwake

SleepTick ==
  \/ SleepPrepare
  \/ SleepEnter
  \/ WakeFromSleep
  \/ SleepReinitStart
  \/ SleepWifiDisconnect
  \/ SleepWifiSetup
  \/ SleepChannelSetup
  \/ SleepEspNowCallback
  \/ SleepPeerSetup
  \/ SleepComplete

LoopTick == AwakeTick \/ SleepTick

\* one loop() iteration, or one step of it
Tick == SetupTick \/ LoopTick

\* the indicator with peers that send up to MaxFrames frames at any moment
Next ==
  \/ AdvanceClock(MaxTime)
  \/ Tick
  \/ Receive

Spec == Init /\ [][Next]_vars

\* the long run: a peer sends one frame soon after boot and is silent from
\* then on, the indicator goes through its sleep cycles
ReceiveEarly == now <= LastFrameBy /\ framesLeft = MaxFrames /\ Receive

NextLong ==
  \/ AdvanceClock(MaxTimeLong)
  \/ Tick
  \/ ReceiveEarly

SpecLong == Init /\ [][NextLong]_vars


\* the run through the wrap of the millisecond clock.  It begins in the state
\* of a node that has been up for almost a clock period and silent for its
\* last ten sleep cycles: the loop() iteration that completed the tenth cycle
\* and forced the extended awake period (SLEEP_COMPLETE, 476-490) has just
\* returned, nothing is lit, no peer is known, the radio is up.  From boot the
\* node is in this state 31100 ms after boot and then once in every ten sleep
\* cycles; here the clock reads a little less than ULONG_MOD
WrapStarts ==
  {ULONG_MOD - WrapLead - k * WaitStep : k \in 0..3} \cup {ULONG_MOD - WrapNear}
InitWrap ==
  /\ SenderInit /\ WireIdle
  /\ now \in WrapStarts
  /\ gpioOut = AllLevel("HIGH") /\ gpioHold = {} /\ ledPad = AllLevel("HIGH")
  /\ radioUp = TRUE /\ recvCb = TRUE /\ peers = {}
  /\ storedPeer = NoPeer
  /\ framesLeft = MaxFrames
  /\ lastCommandTime = Sub(now, 28700) /\ lastStatusTime = Sub(now, 8100)
  /\ nextSleepTime = Sub(now, 2300)
  /\ consecutiveSleepCycles = 0 /\ forceExtendedAwake = TRUE
  /\ activeLedIndex = -1 /\ lastSenderMac = ZeroMac
  /\ sendDiscoveryResponse = FALSE
  /\ setupState = "SETUP_COMPLETE" /\ ledTestState = "LED_TEST_COMPLETE"
  /\ ackState = "ACK_INIT" /\ discoveryState = "DISCOVERY_INIT"
  /\ sleepState = "SLEEP_AWAKE"
  /\ stateTimer = now /\ currentTestLed = NUM_LEDS /\ ackAttemptCount = 0
  /\ ackTargetAddr = NullPtr
  /\ ledTimer = Sub(now, 29400) /\ ackTimer = 0
  /\ pc = "idle" /\ loopQuiet = FALSE /\ currentTime = 0 /\ ackCase = "none" /\ msgValue = 0 /\ ledIdx = -1
  /\ hCmdFrom = NoPeer /\ hCmdVal = -1 /\ hAckCount = 0
  /\ hAckWrongTo = FALSE /\ hAckWrongVal = FALSE /\ hAckPeerOk = FALSE
  /\ hDiscPending = FALSE /\ hDiscTicked = FALSE /\ hDiscPeerFail = FALSE /\ hDiscSent = 0
  /\ hDiscAborted = FALSE /\ hSentCommand = FALSE /\ hWrapped = FALSE
  /\ hPendTime = -1 /\ hCycles = MAX_SLEEP_CYCLES /\ hCmdMidRun = FALSE
  /\ hAckLast = -1

\* a peer sends one frame at any moment of the run
ReceiveOnce == framesLeft = MaxFrames /\ Receive

NextWrap ==
  \/ AdvanceClock(ULONG_MOD + WrapTail)
  \/ LoopTick
  \/ ReceiveOnce

SpecWrap == InitWrap /\ [][NextWrap]_vars

\* ---- runs with uneven spacing of the loop() iterations ----
\* loop() has no fixed period: between two iterations the clock advances by
\* any of the given steps while some state machine is waiting
AdvanceJitter(steps, limit) ==
  /\ pc = "idle" /\ loopQuiet
  /\ \E d \in (IF Busy THEN steps ELSE {IdleGap}) :
       /\ Uptime + d <= limit
       /\ now' = Add(now, d)
       /\ hWrapped' = (hWrapped \/ now + d >= ULONG_MOD)
  /\ loopQuiet' = FALSE
  /\ UNCHANGED <<ledVars, radioVars, storedPeer, framesLeft, progVars, pc, localVars, hVars,
                 besideIndicator>>

\* the awake node with iterations a few ms apart during its Ack and Discovery
\* runs; a peer sends one frame soon after the node's setup.  The run ends
\* where the first sleep cycle would begin
FineSteps == IF AckInFlight \/ DiscoveryInFlight THEN {FineStep, WaitStep} ELSE {WaitStep}
ReceiveSoon == Uptime <= FineFrameBy /\ ReceiveOnce

NextFine ==
  \/ AdvanceJitter(FineSteps, MaxTimeFine)
  \/ SetupTick
  \/ AwakeTick
  \/ ReceiveSoon

SpecFine == Init /\ [][NextFine]_vars

\* the long run with progress: a peer may send one frame just after setup,
\* the Arduino core calls loop() again and again, and the clock, which can
\* advance between any two iterations, does advance again and again, up to
\* MaxTimeLong
NextLive == AdvanceClock(MaxTimeLong) \/ Tick \/ ReceiveSoon
SpecLive ==
  Init /\ [][NextLive]_vars /\ WF_vars(Tick) /\ SF_vars(AdvanceClock(MaxTimeLong))

\* the boot with uneven spacing: while setup is in progress two iterations are
\* 100 or 150 ms apart
BootSteps == IF setupState # "SETUP_COMPLETE" THEN {WaitStep, LongStep} ELSE {WaitStep}
NextBoot == AdvanceJitter(BootSteps, MaxTimeBoot) \/ SetupTick \/ AwakeTick \/ ReceiveOnce
SpecBoot == Init /\ [][NextBoot]_vars

\* ---- the sender's program (sender.cpp) ----
\* what a loop() iteration of the sender can change
senderTracked == <<senderProg, hTxCount, hTxLast>>
SenderNoted == sQuiet' = (sQuiet /\ senderTracked' = senderTracked) /\ UNCHANGED besideSender
SenderIterationNoted == sQuiet' = (senderTracked' = senderTracked) /\ UNCHANGED besideSender

\* millis() of the sender advances once a loop() iteration has found nothing
\* to do
SenderAdvance ==
  /\ sPc = "idle" /\ sQuiet
  /\ sNow + SenderStep <= SenderMaxTime
  /\ sNow' = Add(sNow, SenderStep)
  /\ sQuiet' = FALSE
  /\ UNCHANGED <<sFramesLeft, sRejectsLeft, senderProg, sPc, sAckRead, hTxCount, hTxLast,
                 besideSender>>

\* setupPeer() (sender.cpp:244-308) on the peer state st at time t; accept is
\* the answer of esp_now_add_peer()
setupPeer(st, isInitialSetup, t, accept) ==
  CASE st.peerState = "PEER_INIT" ->
         [st EXCEPT !.peerAttemptCount = 0, !.peerTimer = t, !.peerState = "PEER_ATTEMPT",
                    !.ret = FALSE]
    [] st.peerState = "PEER_ATTEMPT" ->
         LET n == st.peerAttemptCount + 1
         IN  IF AddPeerResult(TRUE, st.peers, indicatorMac, accept)
             THEN [st EXCEPT !.peers = @ \cup {indicatorMac}, !.peerState = "PEER_COMPLETE",
                             !.ret = TRUE]
             ELSE IF n >= 3 /\ ~isInitialSetup
             THEN [st EXCEPT !.peerAttemptCount = n, !.peerState = "PEER_COMPLETE",
                             !.ret = FALSE]
             ELSE [st EXCEPT !.peerAttemptCount = IF n >= 3 THEN 0 ELSE n, !.peerTimer = t,
                             !.peerState = "PEER_RETRY_WAIT", !.ret = FALSE]
    [] st.peerState = "PEER_RETRY_WAIT" ->
         [st EXCEPT !.peerState = IF Sub(t, st.peerTimer) >= 500 THEN "PEER_ATTEMPT" ELSE @,
                    !.ret = FALSE]
    [] OTHER -> [st EXCEPT !.ret = TRUE]

\* the answers esp_now_add_peer() can give, and the rejections left once the
\* peer state st has been given the answer accept
Answers == IF sRejectsLeft > 0 THEN BOOLEAN ELSE {TRUE}
RejectsAfter(left, st, accept) ==
  IF st.peerState = "PEER_ATTEMPT" /\ ~accept THEN left - 1 ELSE left

PeerNow ==
  [peerState |-> peerState, peerAttemptCount |-> peerAttemptCount, peerTimer |-> peerTimer,
   peers |-> sPeers, ret |-> FALSE]

\* loop() of the sender while setup is in progress (sender.cpp:100-188)
SenderSetupSerialWait ==
  /\ sPc = "idle" /\ sSetupState = "SETUP_SERIAL_WAIT"
  /\ sSetupState' = IF Sub(sNow, sSetupTimer) >= 500 THEN "SETUP_ESPNOW_START" ELSE sSetupState
  /\ UNCHANGED <<sNow, sFramesLeft, sRejectsLeft, sRecvCb, sPeers, sSetupTimer, peerState, peerAttemptCount,
                 peerTimer, currentLedIndex, acknowledged, lastSendTime, lastSuccessTime,
                 retryCount, sPc, sAckRead, hTxCount, hTxLast>>
  /\ SenderIterationNoted

SenderSetupEspNowStart ==
  /\ sPc = "idle" /\ sSetupState = "SETUP_ESPNOW_START"
  /\ sSetupTimer' = sNow
  /\ sSetupState' = "SETUP_WIFI_DISCONNECT_WAIT"
  /\ UNCHANGED <<sNow, sFramesLeft, sRejectsLeft, sRecvCb, sPeers, peerState, peerAttemptCount,
                 peerTimer, currentLedIndex, acknowledged, lastSendTime, lastSuccessTime,
                 retryCount, sPc, sAckRead, hTxCount, hTxLast>>
  /\ SenderIterationNoted

SenderSetupWifiDisconnectWait ==
  /\ sPc = "idle" /\ sSetupState = "SETUP_WIFI_DISCONNECT_WAIT"
  /\ IF Sub(sNow, sSetupTimer) >= 300
     THEN sSetupTimer' = sNow /\ sSetupState' = "SETUP_WIFI_CHANNEL_WAIT"
     ELSE UNCHANGED <<sSetupTimer, sSetupState>>
  /\ UNCHANGED <<sNow, sFramesLeft, sRejectsLeft, sRecvCb, sPeers, peerState, peerAttemptCount,
                 peerTimer, currentLedIndex, acknowledged, lastSendTime, lastSuccessTime,
                 retryCount, sPc, sAckRead, hTxCount, hTxLast>>
  /\ SenderIterationNoted

\* esp_now_init() accepted: the callbacks are registered
SenderSetupInitOk ==
  /\ sPc = "idle" /\ sSetupState = "SETUP_WIFI_CHANNEL_WAIT"
  /\ IF Sub(sNow, sSetupTimer) >= 100
     THEN sRecvCb' = TRUE /\ peerState' = "PEER_INIT" /\ sSetupState' = "SETUP_PEER_ATTEMPT"
     ELSE UNCHANGED <<sRecvCb, peerState, sSetupState>>
  /\ UNCHANGED <<sNow, sFramesLeft, sRejectsLeft, sPeers, sSetupTimer, peerAttemptCount,
                 peerTimer, currentLedIndex, acknowledged, lastSendTime, lastSuccessTime,
                 retryCount, sPc, sAckRead, hTxCount, hTxLast>>
  /\ SenderIterationNoted

\* esp_now_init() rejected: ESP.restart(), the sender boots again
SenderSetupInitFail ==
  /\ sPc = "idle" /\ sSetupState = "SETUP_WIFI_CHANNEL_WAIT"
  /\ Sub(sNow, sSetupTimer) >= 100
  /\ sNow' = 0 /\ sRecvCb' = FALSE /\ sPeers' = {}
  /\ sSetupState' = "SETUP_SERIAL_WAIT" /\ sSetupTimer' = 0
  /\ peerState' = "PEER_INIT" /\ peerAttemptCount' = 0 /\ peerTimer' = 0
  /\ currentLedIndex' = 0 /\ acknowledged' = FALSE
  /\ lastSendTime' = 0 /\ lastSuccessTime' = 0 /\ retryCount' = 0
  /\ sPc' = "idle" /\ sQuiet' = FALSE /\ sAckRead' = FALSE
  /\ hTxCount' = 0 /\ hTxLast' = -1
  /\ UNCHANGED <<sFramesLeft, sRejectsLeft, besideSender>>

SenderSetupPeerAttempt ==
  /\ sPc = "idle" /\ sSetupState = "SETUP_PEER_ATTEMPT"
  /\ \E accept \in Answers :
       LET st == setupPeer(PeerNow, TRUE, sNow, accept)
       IN  /\ sRejectsLeft' = RejectsAfter(sRejectsLeft, PeerNow, accept)
           /\ peerState' = st.peerState /\ peerAttemptCount' = st.peerAttemptCount
           /\ peerTimer' = st.peerTimer /\ sPeers' = st.peers
           /\ IF st.ret
              THEN sSetupState' = "SETUP_COMPLETE" /\ sSetupTimer' = sNow
              ELSE UNCHANGED <<sSetupState, sSetupTimer>>
  /\ UNCHANGED <<sNow, sFramesLeft, sRecvCb, currentLedIndex, acknowledged, lastSendTime,
                 lastSuccessTime, retryCount, sPc, sAckRead, hTxCount, hTxLast>>
  /\ SenderIterationNoted

\* loop() after setup, sender.cpp:194: the test 'if (acknowledged)' reads the
\* flag that onDataReceived() writes from the radio task
SenderLoopRead ==
  /\ sPc = "idle" /\ sSetupState = "SETUP_COMPLETE"
  /\ sAckRead' = acknowledged
  /\ sPc' = "body"
  /\ sQuiet' = TRUE
  /\ UNCHANGED <<sNow, sFramesLeft, sRejectsLeft, senderProg, hTxCount, hTxLast,
                 besideSender>>

\* loop() after setup, sender.cpp:195-238: the branch chosen by that test,
\* with sendLedCommand() (317-344), then the peer setup step
SenderLoopBody ==
  /\ sPc = "body"
  /\ \E accept \in Answers :
       LET due == Sub(sNow, lastSendTime) >= RETRY_INTERVAL_MS
           ackAdv == sAckRead /\ Sub(sNow, lastSuccessTime) >= NEXT_LED_DELAY_MS
           retry == ~sAckRead /\ due /\ retryCount < MAX_RETRIES_BEFORE_WAIT
           send == retry /\ peerState = "PEER_COMPLETE"
           sent == send /\ indicatorMac \in sPeers
           forced == ~sAckRead /\ due /\ retryCount >= MAX_RETRIES_BEFORE_WAIT
           adv == ackAdv \/ forced
           st1 == IF adv
                  THEN [PeerNow EXCEPT !.peers = @ \ {indicatorMac}, !.peerState = "PEER_INIT"]
                  ELSE IF send
                  THEN IF sent THEN PeerNow ELSE [PeerNow EXCEPT !.peerState = "PEER_INIT"]
                  ELSE IF retry THEN setupPeer(PeerNow, FALSE, sNow, accept)
                  ELSE PeerNow
           st2 == IF st1.peerState # "PEER_COMPLETE"
                  THEN setupPeer(st1, FALSE, sNow, accept) ELSE st1
           \* (of the two calls of setupPeer() at most one reaches add_peer)
           asked == IF retry /\ ~send /\ PeerNow.peerState = "PEER_ATTEMPT"
                    THEN PeerNow ELSE st1
       IN  /\ sRejectsLeft' = RejectsAfter(sRejectsLeft, asked, accept)
           /\ currentLedIndex' = IF adv THEN (currentLedIndex + 1) % NUM_LEDS
                                 ELSE currentLedIndex
           /\ acknowledged' = IF ackAdv THEN FALSE ELSE acknowledged
           /\ retryCount' = IF adv THEN 0 ELSE IF send THEN retryCount + 1 ELSE retryCount
           /\ lastSendTime' = IF ackAdv THEN 0 ELSE IF forced \/ send THEN sNow
                              ELSE lastSendTime
           /\ lastSuccessTime' = IF ackAdv THEN sNow ELSE lastSuccessTime
           /\ peerState' = st2.peerState /\ peerAttemptCount' = st2.peerAttemptCount
           /\ peerTimer' = st2.peerTimer /\ sPeers' = st2.peers
           /\ hTxCount' = IF adv THEN 0 ELSE IF sent THEN hTxCount + 1 ELSE hTxCount
           /\ hTxLast' = IF adv THEN -1 ELSE IF sent THEN sNow ELSE hTxLast
  /\ sPc' = "idle" /\ sAckRead' = FALSE
  /\ UNCHANGED <<sNow, sFramesLeft, sRecvCb, sSetupState, sSetupTimer>>
  /\ SenderNoted

\* onDataReceived() of the sender (sender.cpp:354-388), on the radio task
\* (an ACK for the first and for the second index, a DISCOVERY, a short frame)
SenderFrames ==
  {[len |-> MESSAGE_SIZE, type |-> ACKNOWLEDGMENT, value |-> v] : v \in {0, 1}}
  \cup {[len |-> MESSAGE_SIZE, type |-> DISCOVERY, value |-> 0],
        [len |-> 1, type |-> ACKNOWLEDGMENT, value |-> 0]}

SenderOnDataReceived(len, type, value) ==
  /\ sRecvCb /\ sFramesLeft > 0
  /\ sFramesLeft' = sFramesLeft - 1
  /\ IF len = MESSAGE_SIZE /\ type = ACKNOWLEDGMENT
     THEN acknowledged' = TRUE /\ lastSuccessTime' = sNow
     ELSE UNCHANGED <<acknowledged, lastSuccessTime>>
  /\ sQuiet' = FALSE
  /\ UNCHANGED <<sNow, sRejectsLeft, sRecvCb, sPeers, sSetupState, sSetupTimer, peerState,
                 peerAttemptCount, peerTimer, currentLedIndex, lastSendTime, retryCount,
                 sPc, sAckRead, hTxCount, hTxLast, besideSender>>

SenderReceive == \E f \in SenderFrames : SenderOnDataReceived(f.len, f.type, f.value)

SenderTick ==
  \/ SenderSetupSerialWait
  \/ SenderSetupEspNowStart
  \/ SenderSetupWifiDisconnectWait
  \/ SenderSetupInitOk
  \/ SenderSetupInitFail
  \/ SenderSetupPeerAttempt
  \/ SenderLoopRead
  \/ SenderLoopBody

\* the sender alone, with the frames that reach it
NextSender ==
  \/ SenderAdvance
  \/ SenderTick
  \/ SenderReceive

SpecSender == Init /\ [][NextSender]_vars

\* ---- one message_t over the wire ----
\* the ints a device may assign to message.value: an LED index (-1 when no LED
\* is active) or any byte
WireValues == -1 .. 255
\* message.type = t; message.value = v; both fields are uint8_t
message_t(t, v) == [type |-> ToU8(t), value |-> ToU8(v)]
WireBytesValueFirst(message) == <<message.value, message.type>>
\* (uint8_t *)&message, sizeof(message): the two fields in declaration order
WireBytes(message) == <<message.type, message.value>>
\* message_t *message = (message_t *)data
WireMessage(data) == [type |-> data[1], value |-> data[2]]

\* esp_now_send(addr, (uint8_t *)&message, sizeof(message))
WireSend ==
  /\ wData = <<>> /\ wRead = NoMessage
  /\ wData' = WireBytes(message_t(wMsg.type, wMsg.value))
  /\ UNCHANGED <<wMsg, wRead, indicatorVars, senderVars>>

\* the receiving onDataReceived(): dataLen == sizeof(message_t), then the cast
WireReceive ==
  /\ Len(wData) = MESSAGE_SIZE
  /\ wRead' = WireMessage(wData)
  /\ wData' = <<>>
  /\ UNCHANGED <<wMsg, indicatorVars, senderVars>>

InitWire ==
  /\ IndicatorInit /\ SenderInit
  /\ wMsg \in [type : FrameTypes, value : WireValues]
  /\ wData = <<>> /\ wRead = NoMessage
NextWire == WireSend \/ WireReceive
SpecWire == InitWire /\ [][NextWire]_vars

\* ---- the claims ----
\* the step in which the handler processes frame f
Handled(f) == OnDataReceived(f.src, f.len, f.type, f.value, f.accept)
\* a step of the handler: no other step takes a frame
FrameTaken == framesLeft' = framesLeft - 1
ValidCommand(f) == f.len = MESSAGE_SIZE /\ f.type = LED_COMMAND /\ f.value < NUM_LEDS
InvalidCommand(f) == f.len = MESSAGE_SIZE /\ f.type = LED_COMMAND /\ f.value >= NUM_LEDS
SetupDone == setupState = "SETUP_COMPLETE"
AckIdle == ~AckInFlight

\* C1: when the receive handler has processed a COMMAND with value v < NUM_LEDS,
\* in any state after setup, activeLedIndex = v, LED v is lit and every other
\* LED is off
C1_CommandLightsOnlyItsLed ==
  [][\A f \in Frames :
       (SetupDone /\ ValidCommand(f) /\ Handled(f))
       => /\ activeLedIndex' = f.value
          /\ \A i \in Leds : (ledPad'[i] = "LOW") <=> (i = f.value)]_vars

\* C2: at any time after setup at most one LED is lit, and a lit LED is LED
\* activeLedIndex
C2_OnlyActiveLedLit ==
  SetupDone => \A i \in Leds : LedLit(i) => i = activeLedIndex

\* C3: processing a COMMAND whose value is >= NUM_LEDS changes no state (active
\* LED, Ack state and target, cached sender address, lastCommandTime,
\* nextSleepTime, consecutiveSleepCycles, forceExtendedAwake, sleep state) and
\* sends no ACK
C3_InvalidCommandChangesNothing ==
  [][\A f \in Frames :
       (InvalidCommand(f) /\ Handled(f))
       => UNCHANGED <<activeLedIndex, ackState, ackTargetAddr, lastSenderMac,
                      lastCommandTime, nextSleepTime, consecutiveSleepCycles,
                      forceExtendedAwake, sleepState, hAckCount>>]_vars

\* C4: after a valid COMMAND from S whose peer registration succeeded, and
\* until a further COMMAND, the Ack run makes exactly 3 send operations, each
\* addressed to S with the active LED index as its value, and is idle after them
C4_ThreeAcksToSender ==
  (hCmdFrom # NoPeer /\ hAckPeerOk)
  => /\ hAckCount <= 3
     /\ ~hAckWrongTo
     /\ ~hAckWrongVal
     /\ (AckIdle => hAckCount = 3)

\* C5: a valid COMMAND(v2) from S2 handled while an Ack run is in flight (also
\* between the choice of the tick's Ack case and its body) is followed by
\* exactly 3 ACKs, all with value v2 and addressed to S2, and by no send of
\* the old run
C5_MidRunCommandRestartsAck ==
  (hCmdMidRun /\ hAckPeerOk)
  => /\ hAckCount <= 3
     /\ ~hAckWrongVal
     /\ ~hAckWrongTo
     /\ (AckIdle => hAckCount = 3)

\* C6: every DISCOVERY received after setup, the first and each later one that
\* arrives when the previous discovery run has finished, is answered by exactly
\* one DISCOVERY reply unless an add-peer call is rejected: once a loop()
\* iteration has passed its discovery step, a run is in flight until the reply
\* is sent, and no second reply follows
C6_EveryDiscoveryAnswered ==
  /\ (hDiscPending /\ hDiscTicked /\ ~hDiscPeerFail) => DiscoveryInFlight
  /\ hDiscSent <= 1

\* C7: the Sleep FSM never goes from Awake to Prepare at a moment when
\* now - lastCommandTime < AWAKE_AFTER_COMMAND_MS
C7_NoSleepInAwakeWindow ==
  [][(sleepState = "SLEEP_AWAKE" /\ sleepState' = "SLEEP_PREPARE")
     => Sub(now', lastCommandTime') >= AWAKE_AFTER_COMMAND_MS]_vars

\* C8: after a COMMAND or DISCOVERY accepted while a sleep cycle was pending
\* (Prepare, or Enter before the suspend) the suspend is not executed until
\* AWAKE_AFTER_COMMAND_MS after that frame
C8_AcceptedFrameCancelsSleep ==
  (pc = "suspended" /\ hPendTime >= 0) => Sub(now, hPendTime) >= AWAKE_AFTER_COMMAND_MS

\* C9: while the Sleep FSM is in a radio-off sub-state (suspended in Enter, or
\* in the Reinit steps before esp_now_init()) no Ack run and no Discovery run
\* is in flight and no discovery reply is pending
RadioOffSubState ==
  \/ pc = "suspended"
  \/ sleepState \in {"SLEEP_REINIT_START", "SLEEP_WIFI_DISCONNECT", "SLEEP_WIFI_SETUP",
                     "SLEEP_CHANNEL_SETUP"}
C9_NoRunWhileRadioOff ==
  RadioOffSubState => AckIdle /\ ~DiscoveryInFlight /\ ~sendDiscoveryResponse

\* C10: at the completion of the 10th sleep cycle in a row with no COMMAND or
\* DISCOVERY in between (none since the first of the cycles began),
\* forceExtendedAwake is true and consecutiveSleepCycles is 0; at the
\* completion of cycles 1 to 9 forceExtendedAwake is false, the counter is the
\* number of completed cycles and nextSleepTime = now + 300
CycleCompletes == pc = "sleep" /\ sleepState = "SLEEP_COMPLETE" /\ pc' = "idle"
C10_TenthCycleForcesExtendedAwake ==
  [][(CycleCompletes /\ hCycles >= 0)
     => IF hCycles' = MAX_SLEEP_CYCLES
        THEN forceExtendedAwake' /\ consecutiveSleepCycles' = 0
        ELSE /\ ~forceExtendedAwake'
             /\ consecutiveSleepCycles' = hCycles'
             /\ nextSleepTime' = Add(now, AWAKE_TIME_MS)]_vars
C10_Witness ==
  /\ hCycles = MAX_SLEEP_CYCLES /\ forceExtendedAwake /\ consecutiveSleepCycles = 0
  /\ pc = "idle" /\ sleepState = "SLEEP_AWAKE"

\* C11: a frame whose length is not 2, or whose type is neither COMMAND nor
\* DISCOVERY, is dropped with no state change: the cached sender address,
\* lastCommandTime, the active LED and the LED outputs, the pending-discovery
\* flag, the duty-cycle variables, every FSM state, the peer table and the
\* persistent store are the same after the handler as before, and nothing is
\* sent because of it
DroppedFrame(f) == f.len # MESSAGE_SIZE \/ f.type \notin {LED_COMMAND, DISCOVERY}
C11_DroppedFrameChangesNothing ==
  [][\A f \in Frames :
       (DroppedFrame(f) /\ Handled(f))
       => UNCHANGED <<lastSenderMac, lastCommandTime, activeLedIndex, ledVars,
                      sendDiscoveryResponse, dutyVars, setupVars, ackVars,
                      discVars, sleepState, stateTimer, peers, storedPeer,
                      hAckCount, hDiscSent>>]_vars

\* C12: whenever esp_now_init() is rejected, in the boot step
\* SETUP_ESPNOW_INIT or in the post-wake step SLEEP_CHANNEL_SETUP, the device
\* restarts (the next state is the state after boot); it never carries on with
\* a radio stack that failed to initialise
InitRejected ==
  /\ now' = now /\ pc' = "idle" /\ ~radioUp'
  /\ \/ pc = "idle" /\ setupState = "SETUP_ESPNOW_INIT"
     \/ /\ pc = "sleep" /\ sleepState = "SLEEP_CHANNEL_SETUP"
        /\ Sub(now, stateTimer) >= 20
C12_InitFailureRestarts ==
  [][InitRejected
     => setupState' = "SETUP_SERIAL_WAIT" /\ sleepState' = "SLEEP_AWAKE"]_vars

\* C13: whenever a sleep cycle that has run its suspend completes (the step
\* SLEEP_COMPLETE brings the Sleep FSM back to SLEEP_AWAKE), the radio is
\* re-established: the stack is initialised, the receive handler is registered
\* and the remembered peer, if there is one, is in the peer table
C13_RadioBackAfterWake ==
  [][CycleCompletes
     => /\ sleepState' = "SLEEP_AWAKE"
        /\ radioUp' /\ recvCb'
        /\ lastSenderMac' # ZeroMac => lastSenderMac' \in peers']_vars

\* C14: the receive handler never transmits a frame: the step in which it
\* processes a frame makes no ACK send (after a valid COMMAND the count of ACKs
\* sent for it is 0, the Ack step run by handleLedCommand() stops before
\* ACK_SEND is executed; any other frame leaves the count as it was) and no
\* DISCOVERY reply send
C14_HandlerNeverSends ==
  [][FrameTaken
     => \A f \in Frames :
          Handled(f)
          => /\ hAckCount' = IF ValidCommand(f) THEN 0 ELSE hAckCount
             /\ hDiscSent' = IF f.len = MESSAGE_SIZE /\ f.type = DISCOVERY
                             THEN 0 ELSE hDiscSent]_vars
C14_Witness ==
  /\ ackState = "ACK_SEND" /\ hAckPeerOk /\ hAckCount = 0 /\ ackAttemptCount = 0
  /\ hCmdFrom \in peers /\ lastCommandTime = now /\ ackTimer = now /\ pc = "led"

\* C15: handling a DISCOVERY frame from address A stores A in the persistent
\* peer store in place of any previous address, sets lastCommandTime to the
\* current time, clears forceExtendedAwake and consecutiveSleepCycles, and
\* leaves the active LED, the LED outputs and the Ack FSM untouched
C15_DiscoveryStoresPeer ==
  [][FrameTaken
     => \A f \in Frames :
          (f.len = MESSAGE_SIZE /\ f.type = DISCOVERY /\ Handled(f))
          => /\ storedPeer' = f.src
             /\ lastCommandTime' = now
             /\ ~forceExtendedAwake' /\ consecutiveSleepCycles' = 0
             /\ UNCHANGED <<activeLedIndex, ledVars, ackVars>>]_vars
C15_Witness ==
  /\ storedPeer = "B" /\ lastSenderMac = "B" /\ "A" \in peers
  /\ hCmdFrom = NoPeer /\ hDiscPending /\ ~hDiscTicked /\ hDiscSent = 0
  /\ lastCommandTime = now

\* C16: when every add-peer attempt of an Ack run has been rejected, the run
\* is over or still retrying, has sent no ACK, the node has not restarted and
\* the LED change of the COMMAND stays; when a Discovery run has ended on a
\* rejected add-peer no reply has been sent for it and the peer is still in the
\* persistent store; and the node keeps handling later frames normally: a
\* DISCOVERY received after the aborted run gets its Discovery run as soon as a
\* loop() iteration has passed its discovery step
AckRunRejected == hCmdFrom # NoPeer /\ ~hAckPeerOk
C16_PeerRejectionEndsRunQuietly ==
  /\ AckRunRejected
     => /\ ackState \in {"ACK_PEER_SETUP", "ACK_COMPLETE"}
        /\ hAckCount = 0
        /\ SetupDone /\ activeLedIndex = hCmdVal
  /\ (hDiscAborted /\ hDiscPeerFail)
     => /\ discoveryState = "DISCOVERY_COMPLETE" /\ hDiscSent = 0
        /\ SetupDone /\ storedPeer # NoPeer
  /\ (hDiscAborted /\ ~hDiscPeerFail /\ hDiscPending /\ hDiscTicked)
     => DiscoveryInFlight

\* C17: the decision to start a sleep cycle, 'now >= nextSleepTime', is the
\* one an unwrapped clock would give: in the policy step of an awake node that
\* is not in its extended awake period, the sleep cycle starts exactly when the
\* time read at the top of loop() is at or after nextSleepTime on the clock
\* circle (less than half a period after it), also when nextSleepTime = stamp +
\* delay has overflowed or the clock has wrapped since the stamp
SleepDue(t, deadline) == Sub(t, deadline) < ULONG_MOD \div 2
SleepDecision ==
  /\ pc = "policy2" /\ pc' = "sleep"
  /\ ~forceExtendedAwake /\ sleepState = "SLEEP_AWAKE"
C17_SleepTestSurvivesWrap ==
  [][SleepDecision
     => (sleepState' = "SLEEP_PREPARE" <=> SleepDue(currentTime, nextSleepTime))]_vars

\* C18: the sender marks its current command acknowledged only on an ACK
\* whose value is its current LED index: the handler's processing of an ACK
\* that carries another index leaves 'acknowledged' and lastSuccessTime as
\* they were
SenderHandled(f) == SenderOnDataReceived(f.len, f.type, f.value)
C18_OnlyMatchingAckCounts ==
  [][\A f \in SenderFrames :
       (f.type = ACKNOWLEDGMENT /\ f.value # currentLedIndex /\ SenderHandled(f))
       => UNCHANGED <<acknowledged, lastSuccessTime>>]_vars

\* C19: for each LED index the sender transmits COMMAND(index) at most 12
\* times, consecutive transmissions are at least 500 ms apart, a transmission
\* is made only while no ACK has been received ('acknowledged' is false), and
\* when the index advances it becomes (index + 1) mod NUM_LEDS with the retry
\* count 0
SenderTransmits == hTxCount' = hTxCount + 1
C19_RetryDiscipline ==
  [][/\ SenderTransmits
        => /\ ~acknowledged
           /\ hTxCount' <= MAX_RETRIES_BEFORE_WAIT
           /\ hTxLast = -1 \/ Sub(sNow, hTxLast) >= RETRY_INTERVAL_MS
     /\ currentLedIndex' # currentLedIndex
        => /\ currentLedIndex' = (currentLedIndex + 1) % NUM_LEDS
           /\ retryCount' = 0 /\ hTxCount' = 0]_vars

\* C20: the indicator transmits only in reply. It never transmits a frame of
\* type COMMAND; a step that sends an ACK is taken only after a valid COMMAND
\* was accepted, and is at most the third send since that COMMAND (so the ACK
\* sends number at most 3 times the accepted COMMANDs); a step that sends a
\* DISCOVERY is taken only while a received DISCOVERY is unanswered, and is
\* the only send since that DISCOVERY (so the DISCOVERY sends number at most
\* the DISCOVERY frames received)
AckSent == hAckCount' = hAckCount + 1
DiscoverySent == hDiscSent' = hDiscSent + 1
C20_TransmitsOnlyInReply ==
  [][/\ ~hSentCommand'
     /\ AckSent => hCmdFrom # NoPeer /\ hAckCount' <= 3
     /\ DiscoverySent => hDiscPending /\ hDiscSent' = 1]_vars
C20_Witness ==
  /\ hAckCount = 3 /\ hCmdFrom # NoPeer
  /\ hDiscSent = 1 /\ ~hDiscPending
  /\ ~hSentCommand

\* C21: within one Ack run (the ACK sends that follow one accepted COMMAND)
\* any two consecutive ACK sends are at least 20 ms apart on the millisecond
\* clock, whatever the spacing of the loop() iterations
C21_AckSendsTwentyMsApart ==
  [][(AckSent /\ hAckLast # -1) => Sub(now, hAckLast) >= 20]_vars
C21_Witness ==
  /\ hAckCount = 3 /\ ackState = "ACK_WAIT" /\ hAckLast = Add(lastCommandTime, 40)

C23_RunsReturnToInit ==
  (pc = "idle" /\ loopQuiet) =>
    /\ ackState # "ACK_COMPLETE"
    /\ discoveryState # "DISCOVERY_COMPLETE"

\* C24: the reply to a DISCOVERY from A is addressed to A, also when a frame
\* of valid length from another address has been received between the
\* DISCOVERY and the reply: every reply goes to the address saved from the
\* last DISCOVERY
C24_ReplyGoesToRequester ==
  [][DiscoverySent => lastSenderMac = storedPeer]_vars

\* C25: when the add-peer call of an Ack run is rejected in PeerSetup, exactly
\* one further attempt is made, no earlier than 10 ms after the first, and the
\* run then leaves PeerSetup (to Complete if rejected again), however many
\* loop() iterations fall inside the 10 ms: every PeerSetup step of loop(),
\* which follows the rejected attempt of the handler, is taken 10 ms or more
\* after the run began and ends PeerSetup
C25_OneRetryAfterTenMs ==
  [][(pc = "ackBody" /\ ackCase = "ACK_PEER_SETUP" /\ ackTargetAddr # NullPtr /\ pc' = "disc")
       => (Sub(now, ackTimer) >= 10 /\ ackState' # "ACK_PEER_SETUP")]_vars

\* C26: while forceExtendedAwake is set and no frame arrives the Sleep machine
\* stays Awake; the policy clears the flag only in a loop() iteration with
\* now - lastCommandTime >= 10000, and then sets consecutiveSleepCycles to 0
\* and nextSleepTime to now + 100, so that the next sleep cycle begins no
\* earlier than 100 ms after the clearing (lastStatusTime is stamped by the
\* clearing iteration; hCycles = MAX_SLEEP_CYCLES tells that no frame and no
\* sleep cycle has come since the period was forced)
ExtendedAwakeEnds == forceExtendedAwake /\ ~forceExtendedAwake' /\ ~FrameTaken
C26_StaysAwakeWhileForced ==
  [][forceExtendedAwake' => sleepState' = "SLEEP_AWAKE"]_vars
C26_ClearedAfterTenSeconds ==
  [][ExtendedAwakeEnds
       => /\ Sub(currentTime, lastCommandTime) >= 10000
          /\ consecutiveSleepCycles' = 0
          /\ nextSleepTime' = Add(currentTime, 100)]_vars
C26_SleepAfterHundredMs ==
  [][(SleepDecision /\ sleepState' = "SLEEP_PREPARE" /\ hCycles = MAX_SLEEP_CYCLES)
       => Sub(currentTime, lastStatusTime) >= 100]_vars
C26_ExtendedAwakePeriod ==
  C26_StaysAwakeWhileForced /\ C26_ClearedAfterTenSeconds /\ C26_SleepAfterHundredMs

\* C27: Setup advances strictly in the order SerialWait, LED test, WifiInit,
\* DisconnectWait, ChannelWait, RadioInit, Complete (a rejected radio init
\* reboots the chip, and Setup begins again at SerialWait); it stays at least
\* 500 ms in SerialWait, 300 ms in DisconnectWait and 100 ms in ChannelWait:
\* stateTimer is the time such a state was entered, nothing moves it during
\* the stay, and the state is left only when the clock is the dwell past it;
\* until Setup is Complete no received frame is handled and no Ack,
\* Discovery, duty-cycle or Sleep step is executed
SetupFollows(st) ==
  CASE st = "SETUP_SERIAL_WAIT" -> "SETUP_LED_TEST"
    [] st = "SETUP_LED_TEST" -> "SETUP_WIFI_INIT"
    [] st = "SETUP_WIFI_INIT" -> "SETUP_WIFI_DISCONNECT_WAIT"
    [] st = "SETUP_WIFI_DISCONNECT_WAIT" -> "SETUP_WIFI_CHANNEL_WAIT"
    [] st = "SETUP_WIFI_CHANNEL_WAIT" -> "SETUP_ESPNOW_INIT"
    [] st = "SETUP_ESPNOW_INIT" -> "SETUP_COMPLETE"
    [] OTHER -> "SETUP_COMPLETE"
SetupDwell ==
  [st \in {"SETUP_SERIAL_WAIT", "SETUP_WIFI_DISCONNECT_WAIT", "SETUP_WIFI_CHANNEL_WAIT"} |->
     CASE st = "SETUP_SERIAL_WAIT" -> 500
       [] st = "SETUP_WIFI_DISCONNECT_WAIT" -> 300
       [] OTHER -> 100]
Rebooted == setupState = "SETUP_ESPNOW_INIT" /\ setupState' = "SETUP_SERIAL_WAIT"
C27_SetupInOrder ==
  [][setupState' # setupState => (setupState' = SetupFollows(setupState) \/ Rebooted)]_vars
C27_SetupDwells ==
  /\ (setupState = "SETUP_SERIAL_WAIT" => stateTimer = 0)
  /\ [][/\ ((setupState' # setupState /\ setupState' \in DOMAIN SetupDwell)
               => stateTimer' = now')
          /\ ((setupState' = setupState /\ setupState \in DOMAIN SetupDwell)
               => stateTimer' = stateTimer)
          /\ ((setupState' # setupState /\ setupState \in DOMAIN SetupDwell)
               => Sub(now, stateTimer) >= SetupDwell[setupState])]_vars
C27_NothingElseDuringSetup ==
  /\ [](~SetupDone => (/\ pc = "idle" /\ ~recvCb /\ framesLeft = MaxFrames
                        /\ ackState = "ACK_INIT" /\ discoveryState = "DISCOVERY_INIT"
                        /\ sleepState = "SLEEP_AWAKE" /\ ~sendDiscoveryResponse
                        /\ hAckCount = 0 /\ hDiscSent = 0))
  /\ [][~SetupDone => (/\ ~FrameTaken
                       /\ UNCHANGED <<ackVars, discVars, sleepState, consecutiveSleepCycles,
                                      forceExtendedAwake>>
                       /\ (setupState # "SETUP_ESPNOW_INIT"
                             => UNCHANGED <<lastCommandTime, nextSleepTime>>))]_vars
LedsOn == {i \in Leds : ledPad[i] = "LOW"}
C29_OneAtATime ==
  [](ledTestState = "LED_TEST_SEQUENCE" /\ setupState = "SETUP_LED_TEST"
       => (Cardinality(LedsOn) <= 1 /\ LedsOn \subseteq {currentTestLed}))
C29_InIndexOrder ==
  [][ledTestState = "LED_TEST_SEQUENCE" /\ ledTestState' = "LED_TEST_SEQUENCE"
       => currentTestLed' \in {currentTestLed, currentTestLed + 1}]_vars
C29_AllOnThreeHundredMs ==
  /\ [](ledTestState = "LED_TEST_ALL_OFF" => LedsOn = Leds)
  /\ [][(ledTestState = "LED_TEST_ALL_ON" /\ ledTestState' # ledTestState)
          => (ledTestState' = "LED_TEST_ALL_OFF" /\ ledTimer' = now)]_vars
  /\ [][(ledTestState = "LED_TEST_ALL_OFF" /\ ledTestState' # ledTestState)
          => (ledTestState' = "LED_TEST_COMPLETE" /\ Sub(now, ledTimer) >= 300)]_vars
C29_EndsDark ==
  [][(ledTestState # "LED_TEST_COMPLETE" /\ ledTestState' = "LED_TEST_COMPLETE")
       => /\ LedsOn' = {} /\ activeLedIndex' = -1
          /\ hAckCount' = 0 /\ hDiscSent' = 0 /\ ~hSentCommand']_vars
C29_RunsOnce ==
  [][ledTestState = "LED_TEST_COMPLETE"
       => (ledTestState' = "LED_TEST_COMPLETE" \/ Rebooted)]_vars
C29_BootLedTest ==
  /\ C29_OneAtATime /\ C29_InIndexOrder /\ C29_AllOnThreeHundredMs
  /\ C29_EndsDark /\ C29_RunsOnce

\* C28: every sleep cycle that no frame cancels performs its steps in order
\* and skips none: a Prepare window of at least 300 ms, the latch of the
\* active LED, the 1700 ms suspend, latch release and LED reassert, radio
\* deinit, WiFi mode cycle, channel set, radio init, handler registration,
\* peer re-add, Complete; deinit, mode cycle, channel set and radio init are
\* each at least 20 ms apart (a frame cancels a cycle through the first test
\* of the policy, loop():268-276, which is the step at pc = "policy")
SleepFollows(st) ==
  CASE st = "SLEEP_PREPARE" -> "SLEEP_ENTER"
    [] st = "SLEEP_ENTER" -> "SLEEP_REINIT_START"
    [] st = "SLEEP_REINIT_START" -> "SLEEP_WIFI_DISCONNECT"
    [] st = "SLEEP_WIFI_DISCONNECT" -> "SLEEP_WIFI_SETUP"
    [] st = "SLEEP_WIFI_SETUP" -> "SLEEP_CHANNEL_SETUP"
    [] st = "SLEEP_CHANNEL_SETUP" -> "SLEEP_ESPNOW_CALLBACK"
    [] st = "SLEEP_ESPNOW_CALLBACK" -> "SLEEP_PEER_SETUP"
    [] st = "SLEEP_PEER_SETUP" -> "SLEEP_COMPLETE"
    [] st = "SLEEP_COMPLETE" -> "SLEEP_AWAKE"
    [] OTHER -> "SLEEP_PREPARE"
SleepSettles == {"SLEEP_WIFI_DISCONNECT", "SLEEP_WIFI_SETUP", "SLEEP_CHANNEL_SETUP"}
SleepStateLeft == sleepState' # sleepState /\ pc # "policy"
C28_SleepStepsInOrder ==
  [][SleepStateLeft => sleepState' = SleepFollows(sleepState)]_vars
C28_SleepStepsDoTheirWork ==
  [][SleepStateLeft =>
       /\ (sleepState = "SLEEP_PREPARE"
             => (Sub(now, stateTimer) >= AWAKE_TIME_MS
                 /\ gpioHold' = (IF activeLedIndex >= 0 THEN {activeLedIndex} ELSE {})))
       /\ (sleepState = "SLEEP_ENTER"
             => (now' = Add(now, SLEEP_DURATION_MS) /\ gpioHold' = {}
                 /\ (activeLedIndex >= 0 => ledPad'[activeLedIndex] = "LOW")))
       /\ (sleepState = "SLEEP_REINIT_START" => (~radioUp' /\ ~recvCb'))
       /\ (sleepState = "SLEEP_CHANNEL_SETUP" => radioUp')
       /\ (sleepState = "SLEEP_ESPNOW_CALLBACK" => recvCb')
       /\ (sleepState = "SLEEP_PEER_SETUP"
             => (lastSenderMac # ZeroMac => \/ lastSenderMac \in peers'
                                           \/ peers' = peers))]_vars
C28_SleepSettleTimes ==
  [][/\ ((sleepState' # sleepState /\ sleepState' \in SleepSettles) => stateTimer' = now')
     /\ ((sleepState' = sleepState /\ sleepState \in SleepSettles) => stateTimer' = stateTimer)
     /\ ((SleepStateLeft /\ sleepState \in SleepSettles)
           => Sub(now, stateTimer) >= 20)]_vars
C28_SleepCycleComplete ==
  C28_SleepStepsInOrder /\ C28_SleepStepsDoTheirWork /\ C28_SleepSettleTimes

\* C30: whenever the Sleep machine is Awake no LED pin has its GPIO hold
\* engaged: every hold engaged at the end of Prepare is released before the
\* machine is back in Awake, also when the cycle is cancelled by a frame that
\* arrives after the hold was engaged and before the suspend ran
C30_NoHoldWhileAwake ==
  sleepState = "SLEEP_AWAKE" => gpioHold = {}

\* C34: every ACK frame the indicator sends carries a value in 0..NUM_LEDS-1
\* that equals activeLedIndex at the moment of sending; no ACK is sent while
\* no LED is active (-1, which would go out as 255)
AckSendStep == pc = "ackBody" /\ ackCase = "ACK_SEND" /\ pc' = "disc"
C34_AckValueInRange ==
  [][AckSendStep => (AckMessage(msgValue).value \in Leds /\ activeLedIndex # -1)]_vars
C34_AckValueIsActiveLed ==
  [][AckSendStep => AckMessage(msgValue).value = activeLedIndex]_vars
C34_AckCarriesActiveLed ==
  C34_AckValueInRange /\ C34_AckValueIsActiveLed

\* C33: once a peer address has been persisted, the remembered address in
\* memory (lastSenderMac) equals the address in the persistent store in every
\* reachable state, whatever frames arrive from other addresses
C33_CacheEqualsStore ==
  storedPeer # NoPeer => lastSenderMac = storedPeer

\* C32: after the cap of ten cycles has set forceExtendedAwake, and with no
\* frame arriving, at least 5000 ms pass between the setting of the flag and
\* the start of the next sleep cycle's Prepare, whatever lastStatusTime is at
\* that moment (the flag is set by SLEEP_COMPLETE in the iteration that
\* stamped stateTimer, and without a frame nothing moves stateTimer before
\* the next Prepare; hCycles = MAX_SLEEP_CYCLES tells that no frame and no
\* sleep cycle has come since)
ExtendedAwakeForced == ~forceExtendedAwake /\ forceExtendedAwake'
C32_ForcedAtStateTimer ==
  [][ExtendedAwakeForced => (stateTimer' = now /\ hCycles' = MAX_SLEEP_CYCLES)]_vars
C32_AwakeFiveSeconds ==
  [][(SleepDecision /\ sleepState' = "SLEEP_PREPARE" /\ hCycles = MAX_SLEEP_CYCLES)
       => Sub(currentTime, stateTimer) >= 5000]_vars
C32_ExtendedAwakeWindow ==
  C32_ForcedAtStateTimer /\ C32_AwakeFiveSeconds

\* C31: if no frame is ever received after setup, loop() keeps running and
\* the clock advances without wrapping, the node begins sleep cycles again
\* and again: an awake node whose sleep deadline lies within the run begins a
\* cycle, every cycle begun a cycle's length before the end of the run is
\* back in Awake, and forceExtendedAwake, once set, is cleared
Silent == framesLeft = MaxFrames
SleepDueInRun ==
  /\ SetupDone /\ sleepState = "SLEEP_AWAKE" /\ ~forceExtendedAwake
  /\ nextSleepTime <= MaxTimeLong
C31_SleepBegins ==
  (Silent /\ SleepDueInRun) ~> (sleepState = "SLEEP_PREPARE" \/ ~Silent)
C31_CycleReturnsToAwake ==
  (Silent /\ sleepState # "SLEEP_AWAKE" /\ Uptime + SleepCycleSpan <= MaxTimeLong)
    ~> (sleepState = "SLEEP_AWAKE" \/ ~Silent)
C31_ForcedAwakeEnds ==
  (Silent /\ forceExtendedAwake /\ lastStatusTime + 5000 <= MaxTimeLong)
    ~> (~forceExtendedAwake \/ ~Silent)
C31_SilentNodeKeepsCycling ==
  C31_SleepBegins /\ C31_CycleReturnsToAwake /\ C31_ForcedAwakeEnds
C31_Witness ==
  /\ Silent /\ hCycles = MAX_SLEEP_CYCLES /\ ~forceExtendedAwake
  /\ sleepState = "SLEEP_PREPARE" /\ consecutiveSleepCycles = 0

====
